---- MODULE Spec2Model ----
(***************************************************************************)
(* A model of the baby-monitor analyzer: the event arbitrator of          *)
(* AnalyzerClient (movement cooldown, wake state machine, registration    *)
(* gate), the session reset, the pose analyzer's smoothing and movement   *)
(* state, and the audio analyzer's per-session state.                     *)
(*                                                                         *)
(* Time is counted in whole seconds.  time.time() is Unix time, far above  *)
(* every cooldown, so the clock starts at ClockStart while the 0.0         *)
(* timestamps set by the constructor stay 0.  Successive readings of the   *)
(* clock never decrease.                                                   *)
(*                                                                         *)
(* An optional number (Optional[float], Optional[ndarray]) is a sequence:  *)
(* <<>> is None and <<v>> is the value v.  An optional string is the       *)
(* string itself or None.                                                  *)
(***************************************************************************)
EXTENDS Integers, Sequences, FiniteSets, TLC

VARIABLES
    now,                      \* the last reading of time.time()
    pc,                       \* AnalyzerClient._pc
    video_task,               \* AnalyzerClient._video_task
    audio_task,               \* AnalyzerClient._audio_task
    current_posture,          \* AnalyzerClient._current_posture
    last_event_label,         \* AnalyzerClient._last_event_label
    last_event_ts,            \* AnalyzerClient._last_event_ts
    last_movement_event_ts,   \* AnalyzerClient._last_movement_event_ts
    wake_candidate_posture,   \* AnalyzerClient._wake_candidate_posture
    wake_candidate_since,     \* AnalyzerClient._wake_candidate_since
    is_awake,                 \* AnalyzerClient._is_awake
    observation,              \* _consume_video: the observation of the last frame
    events,                   \* _consume_video: the events of the last observation
    previous_angle,           \* PoseAnalyzer._previous_angle
    prev_world_landmarks,     \* PoseAnalyzer._prev_world_landmarks
    run_at,                   \* where run() is: "waiting" (not started, or asleep for 2 s), "connecting", "signaling", "returned"
    ws,                       \* AnalyzerClient._ws: "none", "open", or "closed" (the socket is closed, _ws still set)
    tasks,                    \* the consumption tasks created by on_track, in order of creation
    rejoin_lock,              \* AnalyzerClient._rejoin_lock is held
    rejoin,                   \* the position of the _attempt_rejoin started by each state callback
    stop_requested,           \* AnalyzerClient._stop_requested
    landmarker,               \* PoseAnalyzer._landmarker: "open" or "closed"
    raised,                   \* history: the task whose turn, in the step just taken, met an exception of the analysis, or 0
    record_audio,             \* AudioAnalyzer.record_audio (config.record_audio)
    wave_file,                \* AudioAnalyzer._wave_file
    detector,                 \* AudioAnalyzer._detector (its buffer)
    last_cry_ts,              \* AudioAnalyzer._last_cry_ts
    gate_call,                \* the last direct call of _register_event
    run,                      \* history: the current run of equal postures
    prevRun,                  \* history: the run before it
    uprightWakes,             \* history: wake events since the last non-upright posture
    pair,                     \* history: the first two observations of the client
    framesSeen,               \* history: frames handed to process_frame so far
    sessionFrames,            \* history: frames analyzed since the last reset (0, 1, more)
    sinceInvalidation,        \* history: frames analyzed since the pose state was last empty
    lastFrame,                \* history: the frame last handed to process_frame (kind, raw angle)
    sinceFailure,             \* history: frames analyzed since the estimator last failed
    metric_call,              \* the last direct call of _movement_metric
    classify_call,            \* the last direct call of _classify_posture
    detect_call,              \* the last direct call of _detect (on the measures of a window)
    ramp,                     \* the ramp scenario: its fixed features, frames fed, postures emitted
    cry,                      \* history: the calls of AudioAnalyzer.process_frame
    loop,                     \* one call of process_samples, taken turn by turn of its while loop
    audio_call,               \* the last direct call of CryDetector.process_samples
    stream                    \* history: samples fed to the detector, starts of the windows analyzed

connVars == <<pc, video_task, audio_task>>
arbVars == <<current_posture, last_event_label, last_event_ts, last_movement_event_ts, wake_candidate_posture, wake_candidate_since, is_awake>>
loopVars == <<observation, events>>
poseVars == <<previous_angle, prev_world_landmarks>>
audioVars == <<record_audio, wave_file, detector, last_cry_ts>>
histVars == <<run, prevRun, uprightWakes, pair>>
poseHist == <<framesSeen, sessionFrames, sinceInvalidation, lastFrame, sinceFailure>>
callVars == <<gate_call, metric_call, classify_call, detect_call>>
audioHist == <<audio_call, stream, cry, loop>>
sessVars == <<run_at, ws, tasks, rejoin_lock, rejoin, stop_requested, landmarker, raised>>
vars == <<now, connVars, arbVars, loopVars, poseVars, audioVars, callVars, histVars, poseHist, ramp, audioHist, sessVars>>

None == "None"
Postures == {"lying", "sitting", "standing"}
Upright == {"sitting", "standing"}

\* Program constants (seconds).
EventCooldown == 2
CryCooldown == 5
MovementCooldown == 2
WakeMinDuration == 3

\* Bounds of the model.
ClockStart == 5
Horizon == 6
MaxStep == 3
MaxTime == ClockStart + Horizon

Min(a, b) == IF a <= b THEN a ELSE b

(***************************************************************************)
(* AnalyzerClient._register_event                                          *)
(***************************************************************************)

\* event.get("label") is truthy: the key is there and its value is not "".
HasLabel(event) == "label" \in DOMAIN event /\ event["label"] # "" /\ event["label"] # None

\* event.setdefault("extras", {})["event_timestamp"] = timestamp
StampEvent(event, timestamp) ==
    LET old == IF "extras" \in DOMAIN event THEN event["extras"] ELSE <<>>
        new == [k \in (DOMAIN old) \cup {"event_timestamp"} |-> IF k = "event_timestamp" THEN timestamp ELSE old[k]]
    IN [k \in (DOMAIN event) \cup {"extras"} |-> IF k = "extras" THEN new ELSE event[k]]

\* Mutant: the cooldown applies whatever the label of the last event was.
register_event_any_label(gate, event, timestamp) ==
    IF ~HasLabel(event)
    THEN [ret |-> FALSE, gate |-> gate, event |-> event]
    ELSE IF gate.label # None /\ (timestamp - gate.ts) < EventCooldown
    THEN [ret |-> FALSE, gate |-> gate, event |-> event]
    ELSE [ret |-> TRUE, gate |-> [label |-> event["label"], ts |-> timestamp], event |-> StampEvent(event, timestamp)]

\* Mutant: the cooldown test is <= instead of <.
register_event_inclusive(gate, event, timestamp) ==
    IF ~HasLabel(event)
    THEN [ret |-> FALSE, gate |-> gate, event |-> event]
    ELSE IF gate.label = event["label"] /\ (timestamp - gate.ts) <= EventCooldown
    THEN [ret |-> FALSE, gate |-> gate, event |-> event]
    ELSE [ret |-> TRUE, gate |-> [label |-> event["label"], ts |-> timestamp], event |-> StampEvent(event, timestamp)]

\* Mutant: the cooldown of the gate is longer than the movement cooldown and the
\* wake minimum duration.
register_event_slow_gate(gate, event, timestamp) ==
    IF ~HasLabel(event)
    THEN [ret |-> FALSE, gate |-> gate, event |-> event]
    ELSE IF gate.label = event["label"] /\ (timestamp - gate.ts) < EventCooldown + 2
    THEN [ret |-> FALSE, gate |-> gate, event |-> event]
    ELSE [ret |-> TRUE, gate |-> [label |-> event["label"], ts |-> timestamp], event |-> StampEvent(event, timestamp)]

\* gate is (self._last_event_label, self._last_event_ts); the result is the value
\* returned, the pair after the call and the event after the call.
register_event(gate, event, timestamp) ==
    IF ~HasLabel(event)
    THEN [ret |-> FALSE, gate |-> gate, event |-> event]
    ELSE IF gate.label = event["label"] /\ (timestamp - gate.ts) < EventCooldown
    THEN [ret |-> FALSE, gate |-> gate, event |-> event]
    ELSE [ret |-> TRUE, gate |-> [label |-> event["label"], ts |-> timestamp], event |-> StampEvent(event, timestamp)]

(***************************************************************************)
(* AnalyzerClient._handle_pose_observation                                 *)
(***************************************************************************)

\* The arbitrator fields of the client, as one record.
Arb ==
    [current_posture |-> current_posture,
     last_event_label |-> last_event_label,
     last_event_ts |-> last_event_ts,
     last_movement_event_ts |-> last_movement_event_ts,
     wake_candidate_posture |-> wake_candidate_posture,
     wake_candidate_since |-> wake_candidate_since,
     is_awake |-> is_awake]

Gate(a) == [label |-> a.last_event_label, ts |-> a.last_event_ts]

MovementPayload(obs) ==
    [label |-> "movement", description |-> "movement", extras |-> [posture |-> obs.posture]]

WakePayload(posture, duration) ==
    [label |-> "wake", description |-> "wake", extras |-> [posture |-> posture, duration |-> duration]]

\* Mutant: the movement cooldown is not tested, the shared gate alone decides.
movement_detection_no_cooldown(a, obs, t) ==
    IF obs.movement_detected
    THEN LET r == register_event(Gate(a), MovementPayload(obs), t)
         IN [arb |-> [a EXCEPT !.last_event_label = r.gate.label, !.last_event_ts = r.gate.ts, !.last_movement_event_ts = IF r.ret THEN t ELSE @],
             events |-> IF r.ret THEN <<r.event>> ELSE <<>>]
    ELSE [arb |-> a, events |-> <<>>]

\* Mutant: the movement cooldown must be exceeded, not merely reached.
movement_detection_strict(a, obs, t) ==
    IF obs.movement_detected /\ (t - a.last_movement_event_ts) > MovementCooldown
    THEN LET r == register_event(Gate(a), MovementPayload(obs), t)
         IN [arb |-> [a EXCEPT !.last_event_label = r.gate.label, !.last_event_ts = r.gate.ts, !.last_movement_event_ts = IF r.ret THEN t ELSE @],
             events |-> IF r.ret THEN <<r.event>> ELSE <<>>]
    ELSE [arb |-> a, events |-> <<>>]

\* "Movement detection with cooldown": the arbitrator after it and the events appended.
movement_detection(a, obs, t) ==
    IF obs.movement_detected /\ (t - a.last_movement_event_ts) >= MovementCooldown
    THEN LET r == register_event(Gate(a), MovementPayload(obs), t)
         IN [arb |-> [a EXCEPT !.last_event_label = r.gate.label, !.last_event_ts = r.gate.ts, !.last_movement_event_ts = IF r.ret THEN t ELSE @],
             events |-> IF r.ret THEN <<r.event>> ELSE <<>>]
    ELSE [arb |-> a, events |-> <<>>]

\* The branch of wake detection that confirms a candidate (lines 374-398).
wake_confirm(a, posture, t) ==
    LET r == register_event(Gate(a), WakePayload(posture, t - a.wake_candidate_since), t)
        a1 == [a EXCEPT !.last_event_label = r.gate.label, !.last_event_ts = r.gate.ts]
    IN IF r.ret
       THEN [arb |-> [a1 EXCEPT !.is_awake = TRUE, !.wake_candidate_posture = None], events |-> <<r.event>>]
       ELSE [arb |-> a1, events |-> <<>>]

\* Mutant: a change of upright posture keeps the running candidate timer.
wake_detection_keep_timer(a, posture, t) ==
    IF posture \in Upright
    THEN IF a.is_awake
         THEN [arb |-> [a EXCEPT !.wake_candidate_posture = None], events |-> <<>>]
         ELSE IF a.wake_candidate_posture = None
              THEN [arb |-> [a EXCEPT !.wake_candidate_posture = posture, !.wake_candidate_since = t], events |-> <<>>]
              ELSE IF a.wake_candidate_posture # posture
              THEN [arb |-> [a EXCEPT !.wake_candidate_posture = posture], events |-> <<>>]
              ELSE IF (t - a.wake_candidate_since) >= WakeMinDuration
              THEN wake_confirm(a, posture, t)
              ELSE [arb |-> a, events |-> <<>>]
    ELSE [arb |-> [a EXCEPT !.wake_candidate_posture = None, !.wake_candidate_since = 0, !.is_awake = FALSE], events |-> <<>>]

\* Mutant: the awake flag is not consulted, the candidate keeps being tracked.
wake_detection_ignore_awake(a, posture, t) ==
    IF posture \in Upright
    THEN IF a.wake_candidate_posture # posture
         THEN [arb |-> [a EXCEPT !.wake_candidate_posture = posture, !.wake_candidate_since = t], events |-> <<>>]
         ELSE IF (t - a.wake_candidate_since) >= WakeMinDuration
         THEN wake_confirm(a, posture, t)
         ELSE [arb |-> a, events |-> <<>>]
    ELSE [arb |-> [a EXCEPT !.wake_candidate_posture = None, !.wake_candidate_since = 0, !.is_awake = FALSE], events |-> <<>>]

\* Mutant: a non-upright posture clears the candidate but not the awake flag.
wake_detection_keep_awake(a, posture, t) ==
    IF posture \in Upright
    THEN IF a.is_awake
         THEN [arb |-> [a EXCEPT !.wake_candidate_posture = None], events |-> <<>>]
         ELSE IF a.wake_candidate_posture # posture
              THEN [arb |-> [a EXCEPT !.wake_candidate_posture = posture, !.wake_candidate_since = t], events |-> <<>>]
              ELSE IF (t - a.wake_candidate_since) >= WakeMinDuration
              THEN wake_confirm(a, posture, t)
              ELSE [arb |-> a, events |-> <<>>]
    ELSE [arb |-> [a EXCEPT !.wake_candidate_posture = None, !.wake_candidate_since = 0], events |-> <<>>]

\* Mutant: the candidate is confirmed one second early.
wake_detection_early(a, posture, t) ==
    IF posture \in Upright
    THEN IF a.is_awake
         THEN [arb |-> [a EXCEPT !.wake_candidate_posture = None], events |-> <<>>]
         ELSE IF a.wake_candidate_posture # posture
              THEN [arb |-> [a EXCEPT !.wake_candidate_posture = posture, !.wake_candidate_since = t], events |-> <<>>]
              ELSE IF (t - a.wake_candidate_since) >= WakeMinDuration - 1
              THEN wake_confirm(a, posture, t)
              ELSE [arb |-> a, events |-> <<>>]
    ELSE [arb |-> [a EXCEPT !.wake_candidate_posture = None, !.wake_candidate_since = 0, !.is_awake = FALSE], events |-> <<>>]

\* Mutant: the candidate is confirmed one second late.
wake_detection_late(a, posture, t) ==
    IF posture \in Upright
    THEN IF a.is_awake
         THEN [arb |-> [a EXCEPT !.wake_candidate_posture = None], events |-> <<>>]
         ELSE IF a.wake_candidate_posture # posture
              THEN [arb |-> [a EXCEPT !.wake_candidate_posture = posture, !.wake_candidate_since = t], events |-> <<>>]
              ELSE IF (t - a.wake_candidate_since) > WakeMinDuration
              THEN wake_confirm(a, posture, t)
              ELSE [arb |-> a, events |-> <<>>]
    ELSE [arb |-> [a EXCEPT !.wake_candidate_posture = None, !.wake_candidate_since = 0, !.is_awake = FALSE], events |-> <<>>]

\* "Wake detection (sitting or standing maintained for >= 3s)".
wake_detection(a, posture, t) ==
    IF posture \in Upright
    THEN IF a.is_awake
         THEN [arb |-> [a EXCEPT !.wake_candidate_posture = None], events |-> <<>>]
         ELSE IF a.wake_candidate_posture # posture
              THEN [arb |-> [a EXCEPT !.wake_candidate_posture = posture, !.wake_candidate_since = t], events |-> <<>>]
              ELSE IF (t - a.wake_candidate_since) >= WakeMinDuration
              THEN wake_confirm(a, posture, t)
              ELSE [arb |-> a, events |-> <<>>]
    ELSE [arb |-> [a EXCEPT !.wake_candidate_posture = None, !.wake_candidate_since = 0, !.is_awake = FALSE], events |-> <<>>]

\* The whole handler at clock reading t: the arbitrator after it and the list returned.
handle_pose_observation(a, obs, t) ==
    LET m == movement_detection(a, obs, t)
        w == wake_detection(m.arb, obs.posture, t)
    IN [arb |-> [w.arb EXCEPT !.current_posture = obs.posture], events |-> m.events \o w.events]

HasEvent(evs, label) == \E i \in DOMAIN evs : evs[i]["label"] = label
CountEvents(evs, label) == Cardinality({i \in DOMAIN evs : evs[i]["label"] = label})

(***************************************************************************)
(* PoseAnalyzer.  Angles are in hundredths of a degree, ratios and spans   *)
(* in hundredths, world coordinates in millimetres (one axis).  A          *)
(* landmark array is a sequence of points, each <<>> (NaN: not visible) or *)
(* <<x>>.  A movement score is the exact mean sum / n.                     *)
(***************************************************************************)

Deg(d) == 100 * d

\* Defaults of PoseAnalyzer.__init__.
MovementThreshold == 80
Smoothing == 6
StandingAngle == 35
LyingAngle == 65
LyingForwardRatio == 45
StandingForwardRatio == 35
StandingKneeAngle == 150
SittingKneeMin == 70
SittingKneeMax == 150
StandingLegExtensionMin == 22
SittingLegExtensionMax == 18

\* Bounds of the model.
NumLandmarks == 1
MaxFrames == 3

Coords == {0, 100}
Points == {<<>>} \cup {<<x>> : x \in Coords}
LandmarkArrays == [1 .. NumLandmarks -> Points]
RawAngles == {Deg(10), Deg(80)}

Abs(x) == IF x < 0 THEN -x ELSE x

RECURSIVE SumOver(_, _)
SumOver(f, S) == IF S = {} THEN 0 ELSE LET i == CHOOSE j \in S : TRUE IN f[i] + SumOver(f, S \ {i})

ZeroScore == [sum |-> 0, n |-> 1]

\* Mutant: without an overlapping valid landmark the old baseline is kept.
movement_metric_keep_baseline(prev, landmarks) ==
    IF prev = <<>>
    THEN [prev |-> <<landmarks>>, score |-> ZeroScore, detected |-> FALSE]
    ELSE LET valid == {i \in DOMAIN landmarks : landmarks[i] # <<>> /\ prev[1][i] # <<>>}
         IN IF valid = {}
            THEN [prev |-> prev, score |-> ZeroScore, detected |-> FALSE]
            ELSE LET diffs == [i \in valid |-> Abs(landmarks[i][1] - prev[1][i][1])]
                     total == SumOver(diffs, valid)
                     n == Cardinality(valid)
                 IN [prev |-> <<landmarks>>, score |-> [sum |-> total, n |-> n], detected |-> total > MovementThreshold * n]

\* _movement_metric: landmarks is the array with the invisible points already NaN;
\* the result is the new _prev_world_landmarks, the score and the detection flag.
movement_metric(prev, landmarks) ==
    IF prev = <<>>
    THEN [prev |-> <<landmarks>>, score |-> ZeroScore, detected |-> FALSE]
    ELSE LET valid == {i \in DOMAIN landmarks : landmarks[i] # <<>> /\ prev[1][i] # <<>>}
         IN IF valid = {}
            THEN [prev |-> <<landmarks>>, score |-> ZeroScore, detected |-> FALSE]
            ELSE LET diffs == [i \in valid |-> Abs(landmarks[i][1] - prev[1][i][1])]
                     total == SumOver(diffs, valid)
                     n == Cardinality(valid)
                 IN [prev |-> <<landmarks>>, score |-> [sum |-> total, n |-> n], detected |-> total > MovementThreshold * n]

\* Mutant: no smoothing.
smooth_angle_raw(prev, current_angle) == current_angle

\* Mutant: the weights of the previous and of the current angle are exchanged.
smooth_angle_swapped(prev, current_angle) ==
    IF prev = <<>>
    THEN current_angle
    ELSE ((10 - Smoothing) * prev[1] + Smoothing * current_angle) \div 10

\* _smooth_angle: the new _previous_angle, which is also the value returned.
smooth_angle(prev, current_angle) ==
    IF prev = <<>>
    THEN current_angle
    ELSE (Smoothing * prev[1] + (10 - Smoothing) * current_angle) \div 10

Max(a, b) == IF a >= b THEN a ELSE b
Vote(cond) == IF cond THEN 1 ELSE 0

standing_score(angle_deg, forward_component, avg_knee_angle, leg_extension, leg_span, knee_span) ==
      Vote(avg_knee_angle # <<>> /\ avg_knee_angle[1] >= Deg(StandingKneeAngle))
    + Vote(leg_extension # <<>> /\ leg_extension[1] >= StandingLegExtensionMin)
    + Vote(leg_span # <<>> /\ leg_span[1] >= 22)
    + Vote(knee_span # <<>> /\ knee_span[1] >= 12)
    + Vote(angle_deg <= Deg(StandingAngle + 5) /\ forward_component <= StandingForwardRatio + 5)

\* Mutant: an absent leg extension or span is read as 0.
sitting_score_absent_as_zero(angle_deg, forward_component, avg_knee_angle, leg_extension, leg_span, knee_span) ==
      Vote(avg_knee_angle # <<>> /\ Deg(SittingKneeMin) <= avg_knee_angle[1] /\ avg_knee_angle[1] <= Deg(SittingKneeMax))
    + Vote(leg_extension = <<>> \/ leg_extension[1] <= SittingLegExtensionMax)
    + Vote(leg_span = <<>> \/ leg_span[1] < 18)
    + Vote(knee_span = <<>> \/ knee_span[1] < 10)
    + Vote(~(angle_deg <= Deg(StandingAngle + 5) /\ forward_component <= StandingForwardRatio + 5) /\ angle_deg <= Deg(LyingAngle + 8))

sitting_score(angle_deg, forward_component, avg_knee_angle, leg_extension, leg_span, knee_span) ==
      Vote(avg_knee_angle # <<>> /\ Deg(SittingKneeMin) <= avg_knee_angle[1] /\ avg_knee_angle[1] <= Deg(SittingKneeMax))
    + Vote(leg_extension # <<>> /\ leg_extension[1] <= SittingLegExtensionMax)
    + Vote(leg_span # <<>> /\ leg_span[1] < 18)
    + Vote(knee_span # <<>> /\ knee_span[1] < 10)
    + Vote(~(angle_deg <= Deg(StandingAngle + 5) /\ forward_component <= StandingForwardRatio + 5) /\ angle_deg <= Deg(LyingAngle + 8))

\* Mutant: the lying gate is tested after the scores.
classify_posture_gate_after_scores(angle_deg, forward_component, avg_knee_angle, leg_extension, leg_span, knee_span) ==
    LET st == standing_score(angle_deg, forward_component, avg_knee_angle, leg_extension, leg_span, knee_span)
        si == sitting_score(angle_deg, forward_component, avg_knee_angle, leg_extension, leg_span, knee_span)
    IN IF st >= Max(si, 2) THEN "standing"
       ELSE IF si >= Max(st, 2) THEN "sitting"
       ELSE IF angle_deg >= Deg(LyingAngle + 5) \/ forward_component >= LyingForwardRatio + 8 THEN "lying"
       ELSE IF angle_deg <= Deg(LyingAngle + 8) THEN "sitting"
       ELSE IF angle_deg <= Deg(StandingAngle + 6) THEN "standing"
       ELSE "lying"

\* Mutant: the sitting score is tested before the standing score.
classify_posture_sitting_first(angle_deg, forward_component, avg_knee_angle, leg_extension, leg_span, knee_span) ==
    LET st == standing_score(angle_deg, forward_component, avg_knee_angle, leg_extension, leg_span, knee_span)
        si == sitting_score(angle_deg, forward_component, avg_knee_angle, leg_extension, leg_span, knee_span)
    IN IF angle_deg >= Deg(LyingAngle + 5) \/ forward_component >= LyingForwardRatio + 8
       THEN "lying"
       ELSE IF si >= Max(st, 2) THEN "sitting"
       ELSE IF st >= Max(si, 2) THEN "standing"
       ELSE IF angle_deg <= Deg(LyingAngle + 8) THEN "sitting"
       ELSE IF angle_deg <= Deg(StandingAngle + 6) THEN "standing"
       ELSE "lying"

\* Mutant: no fallback when neither score reaches the floor.
classify_posture_no_fallback(angle_deg, forward_component, avg_knee_angle, leg_extension, leg_span, knee_span) ==
    LET st == standing_score(angle_deg, forward_component, avg_knee_angle, leg_extension, leg_span, knee_span)
        si == sitting_score(angle_deg, forward_component, avg_knee_angle, leg_extension, leg_span, knee_span)
    IN IF angle_deg >= Deg(LyingAngle + 5) \/ forward_component >= LyingForwardRatio + 8
       THEN "lying"
       ELSE IF st >= Max(si, 2) THEN "standing"
       ELSE IF si >= Max(st, 2) THEN "sitting"
       ELSE None

\* _classify_posture
\* Mutant: the fallback tests the standing angle before the sitting angle.
classify_posture_fallback_standing_first(angle_deg, forward_component, avg_knee_angle, leg_extension, leg_span, knee_span) ==
    LET st == standing_score(angle_deg, forward_component, avg_knee_angle, leg_extension, leg_span, knee_span)
        si == sitting_score(angle_deg, forward_component, avg_knee_angle, leg_extension, leg_span, knee_span)
    IN IF angle_deg >= Deg(LyingAngle + 5) \/ forward_component >= LyingForwardRatio + 8
       THEN "lying"
       ELSE IF st >= Max(si, 2) THEN "standing"
       ELSE IF si >= Max(st, 2) THEN "sitting"
       ELSE IF angle_deg <= Deg(StandingAngle + 6) THEN "standing"
       ELSE IF angle_deg <= Deg(LyingAngle + 8) THEN "sitting"
       ELSE "lying"

classify_posture(angle_deg, forward_component, avg_knee_angle, leg_extension, leg_span, knee_span) ==
    LET st == standing_score(angle_deg, forward_component, avg_knee_angle, leg_extension, leg_span, knee_span)
        si == sitting_score(angle_deg, forward_component, avg_knee_angle, leg_extension, leg_span, knee_span)
    IN IF angle_deg >= Deg(LyingAngle + 5) \/ forward_component >= LyingForwardRatio + 8
       THEN "lying"
       ELSE IF st >= Max(si, 2) THEN "standing"
       ELSE IF si >= Max(st, 2) THEN "sitting"
       ELSE IF angle_deg <= Deg(LyingAngle + 8) THEN "sitting"
       ELSE IF angle_deg <= Deg(StandingAngle + 6) THEN "standing"
       ELSE "lying"

\* The features of a frame other than the torso angle, as the estimator's landmarks give them.
FeatureSets ==
    {[forward_component |-> 10, avg_knee_angle |-> <<>>, leg_extension |-> <<>>, leg_span |-> <<>>, knee_span |-> <<>>],
     [forward_component |-> 10, avg_knee_angle |-> <<Deg(170)>>, leg_extension |-> <<30>>, leg_span |-> <<30>>, knee_span |-> <<15>>],
     [forward_component |-> 10, avg_knee_angle |-> <<Deg(90)>>, leg_extension |-> <<10>>, leg_span |-> <<10>>, knee_span |-> <<5>>],
     [forward_component |-> 60, avg_knee_angle |-> <<Deg(170)>>, leg_extension |-> <<30>>, leg_span |-> <<>>, knee_span |-> <<>>]}

\* What the landmarker does with a frame: it raises, or it returns nothing, a body
\* with a torso vector of near-zero length, or a body with its features and (masked)
\* world landmarks.
EstimatorFailures == {"raise", "none", "degenerate"}

Frames ==
    {[kind |-> k] : k \in EstimatorFailures}
    \cup {[kind |-> "body", angle_deg |-> a, features |-> f, landmarks |-> l] : a \in RawAngles, f \in FeatureSets, l \in LandmarkArrays}

\* _invalidate_state
invalidate_state(p) == [previous_angle |-> <<>>, prev_world_landmarks |-> <<>>]

Pose == [previous_angle |-> previous_angle, prev_world_landmarks |-> prev_world_landmarks]

\* Mutant: a degenerate torso is analyzed at the 90 degrees of _angle_with_vertical.
process_frame_degenerate_classified(p, frame) ==
    IF frame.kind = "raise"
    THEN [pose |-> p, observation |-> <<>>, raised |-> TRUE]
    ELSE IF frame.kind = "none"
    THEN [pose |-> invalidate_state(p), observation |-> <<>>, raised |-> FALSE]
    ELSE IF frame.kind = "degenerate"
    THEN [pose |-> [previous_angle |-> <<smooth_angle(p.previous_angle, Deg(90))>>, prev_world_landmarks |-> p.prev_world_landmarks],
          observation |-> <<[posture |-> classify_posture(smooth_angle(p.previous_angle, Deg(90)), 0, <<>>, <<>>, <<>>, <<>>), movement_score |-> ZeroScore, movement_detected |-> FALSE, torso_angle |-> smooth_angle(p.previous_angle, Deg(90))]>>,
          raised |-> FALSE]
    ELSE LET smoothed_angle == smooth_angle(p.previous_angle, frame.angle_deg)
             f == frame.features
             posture == classify_posture(smoothed_angle, f.forward_component, f.avg_knee_angle, f.leg_extension, f.leg_span, f.knee_span)
             mv == movement_metric(p.prev_world_landmarks, frame.landmarks)
         IN [pose |-> [previous_angle |-> <<smoothed_angle>>, prev_world_landmarks |-> mv.prev],
             observation |-> <<[posture |-> posture, movement_score |-> mv.score, movement_detected |-> mv.detected, torso_angle |-> smoothed_angle]>>,
             raised |-> FALSE]

\* process_frame: the analyzer state after the frame and the value returned
\* (<<>> is None).  When the landmarker raises, the exception leaves process_frame
\* before any of its state is touched.
process_frame(p, frame) ==
    IF frame.kind = "raise"
    THEN [pose |-> p, observation |-> <<>>, raised |-> TRUE]
    ELSE IF frame.kind = "none" \/ frame.kind = "degenerate"
    THEN [pose |-> invalidate_state(p), observation |-> <<>>, raised |-> FALSE]
    ELSE LET smoothed_angle == smooth_angle(p.previous_angle, frame.angle_deg)
             f == frame.features
             posture == classify_posture(smoothed_angle, f.forward_component, f.avg_knee_angle, f.leg_extension, f.leg_span, f.knee_span)
             mv == movement_metric(p.prev_world_landmarks, frame.landmarks)
         IN [pose |-> [previous_angle |-> <<smoothed_angle>>, prev_world_landmarks |-> mv.prev],
             observation |-> <<[posture |-> posture, movement_score |-> mv.score, movement_detected |-> mv.detected, torso_angle |-> smoothed_angle]>>,
             raised |-> FALSE]

(***************************************************************************)
(* History of the observations handled (not program state).                *)
(***************************************************************************)

NoRun == [posture |-> None, since |-> 0, wakes |-> 0, fromUnset |-> FALSE]
NoPrevRun == [posture |-> None, span |-> 0, wakes |-> 0, fromUnset |-> FALSE]
NoPair == [n |-> 0, first |-> <<>>, t0 |-> 0, gap |-> 0, same |-> FALSE, moves |-> 0]
PairDone == [n |-> 3, first |-> <<>>, t0 |-> 0, gap |-> 0, same |-> FALSE, moves |-> 0]

\* The run of equal postures after an observation of posture p at time t that emitted w
\* wake events, handled in arbitrator state a.
NextRun(a, p, t, w) ==
    IF run.posture = p
    THEN [run EXCEPT !.wakes = Min(2, @ + w)]
    ELSE [posture |-> p, since |-> t, wakes |-> w, fromUnset |-> (a.wake_candidate_posture = None /\ ~a.is_awake)]

NextPrevRun(p) ==
    IF run.posture = p
    THEN prevRun
    ELSE [posture |-> run.posture, span |-> Min(now - run.since, WakeMinDuration), wakes |-> run.wakes, fromUnset |-> run.fromUnset]

NextPair(obs, t, m) ==
    CASE pair.n = 0 -> [n |-> 1, first |-> <<obs>>, t0 |-> t, gap |-> 0, same |-> FALSE, moves |-> m]
      [] pair.n = 1 -> [pair EXCEPT !.n = 2, !.gap = t - pair.t0, !.same = (<<obs>> = pair.first), !.moves = @ + m]
      [] OTHER -> PairDone

(***************************************************************************)
(* State after AnalyzerClient.__init__, PoseAnalyzer.__init__ and          *)
(* AudioAnalyzer.__init__.                                                 *)
(***************************************************************************)
InitState ==
    /\ now = ClockStart
    /\ pc = None
    /\ video_task = None
    /\ audio_task = None
    /\ current_posture = None
    /\ last_event_label = None
    /\ last_event_ts = 0
    /\ last_movement_event_ts = 0
    /\ wake_candidate_posture = None
    /\ wake_candidate_since = 0
    /\ is_awake = FALSE
    /\ observation = <<>>
    /\ events = <<>>
    /\ previous_angle = <<>>
    /\ prev_world_landmarks = <<>>
    /\ run_at = "waiting"
    /\ ws = "none"
    /\ tasks = <<>>
    /\ rejoin_lock = FALSE
    /\ rejoin = [cb \in {"ice", "connection"} |-> "idle"]
    /\ stop_requested = FALSE
    /\ landmarker = "open"
    /\ raised = 0
    /\ wave_file = None
    /\ detector = <<>>
    /\ last_cry_ts = 0
    /\ gate_call = <<>>
    /\ run = NoRun
    /\ prevRun = NoPrevRun
    /\ uprightWakes = 0
    /\ pair = NoPair
    /\ framesSeen = 0
    /\ sessionFrames = 0
    /\ sinceInvalidation = 0
    /\ lastFrame = <<>>
    /\ sinceFailure = 2
    /\ metric_call = <<>>
    /\ classify_call = <<>>
    /\ detect_call = <<>>
    /\ ramp = [features |-> <<>>, i |-> 0, postures |-> <<>>]
    /\ audio_call = <<>>
    /\ loop = [at |-> "idle", window_size |-> 0, hop_size |-> 0, buffer |-> <<>>, event |-> FALSE]
    /\ cry = [frames |-> 0, fed |-> 0, returned |-> <<>>, suppressed |-> <<>>, last |-> <<>>]
    /\ stream = [fed |-> 0, calls |-> 0, kinds |-> <<>>, starts |-> <<>>, events |-> <<>>]

\* The client built from the default configuration: no recording of the audio.
Init == InitState /\ record_audio = FALSE

\* The client built from a configuration with or without recording of the audio.
InitConfigured == InitState /\ record_audio \in BOOLEAN

\* ... and with ANALYZER_AUDIO_RECORD set: the audio of the session is recorded.
InitRecording == InitState /\ record_audio = TRUE

(***************************************************************************)
(* Actions                                                                 *)
(***************************************************************************)

\* _setup_peer_connection: a new peer connection, its handlers registered.
SetupPeerConnection ==
    /\ pc' = "open"
    /\ UNCHANGED <<now, video_task, audio_task, arbVars, loopVars, poseVars, audioVars, callVars, histVars, poseHist, ramp, audioHist, sessVars>>

\* on_track: a consumption task is created for the track.
OnTrack ==
    /\ pc = "open"
    /\ \E kind \in {"video", "audio"} :
          /\ video_task' = IF kind = "video" THEN "running" ELSE video_task
          /\ audio_task' = IF kind = "audio" THEN "running" ELSE audio_task
    /\ UNCHANGED <<now, pc, arbVars, loopVars, poseVars, audioVars, callVars, histVars, poseHist, ramp, audioHist, sessVars>>

\* One observation delivered by the video task to _handle_pose_observation, which
\* reads the clock (now = time.time()) and returns the events.
HandlePoseObservation ==
    /\ video_task = "running"
    /\ \E posture \in Postures, movement_detected \in BOOLEAN, t \in now .. Min(now + MaxStep, MaxTime) :
          LET obs == [posture |-> posture, movement_detected |-> movement_detected]
              r == handle_pose_observation(Arb, obs, t)
              w == CountEvents(r.events, "wake")
              m == CountEvents(r.events, "movement")
          IN /\ now' = t
             /\ current_posture' = r.arb.current_posture
             /\ last_event_label' = r.arb.last_event_label
             /\ last_event_ts' = r.arb.last_event_ts
             /\ last_movement_event_ts' = r.arb.last_movement_event_ts
             /\ wake_candidate_posture' = r.arb.wake_candidate_posture
             /\ wake_candidate_since' = r.arb.wake_candidate_since
             /\ is_awake' = r.arb.is_awake
             /\ observation' = <<obs>>
             /\ events' = r.events
             /\ run' = NextRun(Arb, posture, t, w)
             /\ prevRun' = NextPrevRun(posture)
             /\ uprightWakes' = IF posture \in Upright THEN Min(2, uprightWakes + w) ELSE 0
             /\ pair' = NextPair(obs, t, m)
    /\ UNCHANGED <<connVars, poseVars, audioVars, callVars, poseHist, ramp, audioHist, sessVars>>

\* AudioAnalyzer.close
audio_close(a) == [a EXCEPT !.wave_file = None, !.detector = <<>>]

\* AnalyzerClient._reset: the tasks are cancelled (their locals are gone), the peer
\* connection is closed, the current posture is cleared and the audio analyzer closed.
Reset ==
    LET audio == audio_close([wave_file |-> wave_file, detector |-> detector, last_cry_ts |-> last_cry_ts])
    IN /\ video_task' = None
       /\ audio_task' = None
       /\ pc' = None
       /\ current_posture' = None
       /\ observation' = <<>>
       /\ events' = <<>>
       /\ wave_file' = audio.wave_file
       /\ detector' = audio.detector
       /\ last_cry_ts' = audio.last_cry_ts
       /\ sessionFrames' = 0
       /\ UNCHANGED <<now, record_audio, last_event_label, last_event_ts, last_movement_event_ts, wake_candidate_posture, wake_candidate_since, is_awake, poseVars, callVars, histVars, framesSeen, sinceInvalidation, lastFrame, sinceFailure, ramp, audioHist, sessVars>>

NextArb ==
    \/ SetupPeerConnection
    \/ OnTrack
    \/ HandlePoseObservation
    \/ Reset

\* The event arbitrator over the sessions of one client.
SpecArb == Init /\ [][NextArb]_vars

\* One frame handed by the video task to PoseAnalyzer.process_frame; an exception
\* of process_frame is caught and the loop goes on with the next frame.  (What
\* _handle_pose_observation does with the observation is the subject of SpecArb.)
ProcessFrame ==
    /\ video_task = "running"
    /\ framesSeen < MaxFrames
    /\ \E frame \in Frames :
          LET r == process_frame(Pose, frame)
          IN /\ previous_angle' = r.pose.previous_angle
             /\ prev_world_landmarks' = r.pose.prev_world_landmarks
             /\ observation' = r.observation
             /\ sessionFrames' = IF r.observation = <<>> THEN sessionFrames ELSE Min(2, sessionFrames + 1)
             /\ sinceInvalidation' = IF r.raised THEN sinceInvalidation ELSE IF r.observation = <<>> THEN 0 ELSE Min(2, sinceInvalidation + 1)
             /\ lastFrame' = <<IF frame.kind = "body" THEN [kind |-> "body", angle_deg |-> frame.angle_deg] ELSE frame>>
             /\ sinceFailure' = IF r.observation = <<>> THEN 0 ELSE Min(2, sinceFailure + 1)
    /\ framesSeen' = framesSeen + 1
    /\ UNCHANGED <<now, connVars, arbVars, events, audioVars, callVars, histVars, ramp, audioHist, sessVars>>

NextPose ==
    \/ SetupPeerConnection
    \/ OnTrack
    \/ ProcessFrame
    \/ Reset

\* The pose analyzer over the sessions of one client.
SpecPose == Init /\ [][NextPose]_vars

(***************************************************************************)
(* One whole iteration of the loop of _consume_video: the frame goes to    *)
(* process_frame and, when there is an observation, the observation goes   *)
(* to _handle_pose_observation.                                            *)
(***************************************************************************)

MaxVideoFrames == 2

\* The frames of this specification: every failure, and the bodies with an upright
\* torso direction, legs unseen or straight, and landmarks that all sit at the same
\* coordinate or are all invisible.
VideoFrames ==
    {f \in Frames : f.kind = "body" =>
        /\ \A i \in DOMAIN f.landmarks : f.landmarks[i] = f.landmarks[1]
        /\ f.features.forward_component < LyingForwardRatio
        /\ f.features.avg_knee_angle \in {<<>>, <<Deg(170)>>}}

\* Mutant: a frame without observation is handled as a frame without upright body.
after_estimation_gap_clears(a, obs, t) ==
    IF obs = <<>>
    THEN [arb |-> [a EXCEPT !.wake_candidate_posture = None, !.wake_candidate_since = 0, !.is_awake = FALSE], events |-> <<>>]
    ELSE handle_pose_observation(a, obs[1], t)

\* _consume_video after the estimation: "if not observation: continue", else the
\* observation goes to _handle_pose_observation.
after_estimation(a, obs, t) ==
    IF obs = <<>>
    THEN [arb |-> a, events |-> <<>>]
    ELSE handle_pose_observation(a, obs[1], t)

ConsumeVideoFrame ==
    /\ video_task = "running"
    /\ framesSeen < MaxVideoFrames
    /\ \E frame \in VideoFrames, t \in now .. Min(now + MaxStep, MaxTime) :
          LET r == process_frame(Pose, frame)
              h == after_estimation(Arb, r.observation, t)
          IN /\ previous_angle' = r.pose.previous_angle
             /\ prev_world_landmarks' = r.pose.prev_world_landmarks
             /\ observation' = r.observation
             /\ now' = IF r.observation = <<>> THEN now ELSE t
             /\ current_posture' = h.arb.current_posture
             /\ last_event_label' = h.arb.last_event_label
             /\ last_event_ts' = h.arb.last_event_ts
             /\ last_movement_event_ts' = h.arb.last_movement_event_ts
             /\ wake_candidate_posture' = h.arb.wake_candidate_posture
             /\ wake_candidate_since' = h.arb.wake_candidate_since
             /\ is_awake' = h.arb.is_awake
             /\ events' = h.events
             /\ sessionFrames' = IF r.observation = <<>> THEN sessionFrames ELSE Min(2, sessionFrames + 1)
             /\ sinceInvalidation' = IF r.raised THEN sinceInvalidation ELSE IF r.observation = <<>> THEN 0 ELSE Min(2, sinceInvalidation + 1)
             /\ lastFrame' = <<IF frame.kind = "body" THEN [kind |-> "body", angle_deg |-> frame.angle_deg] ELSE frame>>
             /\ sinceFailure' = IF r.observation = <<>> THEN 0 ELSE Min(2, sinceFailure + 1)
    /\ framesSeen' = framesSeen + 1
    /\ UNCHANGED <<connVars, audioVars, callVars, histVars, ramp, audioHist, sessVars>>

NextVideo ==
    \/ SetupPeerConnection
    \/ OnTrack
    \/ ConsumeVideoFrame
    \/ Reset

\* The video loop over the sessions of one client.
SpecVideo == Init /\ [][NextVideo]_vars

(***************************************************************************)
(* _register_event called on its own, with any event and any timestamp.    *)
(***************************************************************************)

GateEvents ==
    {[label |-> "movement", description |-> "movement", extras |-> [posture |-> "lying"]],
     [label |-> "wake", description |-> "wake", extras |-> [posture |-> "sitting", duration |-> 3]],
     [label |-> "wake", description |-> "wake"],
     [label |-> "", description |-> "unlabelled"],
     [description |-> "unlabelled"]}

RegisterEventCall ==
    /\ \E event \in GateEvents, timestamp \in 0 .. MaxTime :
          LET r == register_event(Gate(Arb), event, timestamp)
          IN /\ last_event_label' = r.gate.label
             /\ last_event_ts' = r.gate.ts
             /\ gate_call' = <<[event |-> event, timestamp |-> timestamp, ret |-> r.ret, after |-> r.event]>>
    /\ UNCHANGED <<now, connVars, current_posture, last_movement_event_ts, wake_candidate_posture, wake_candidate_since, is_awake, loopVars, poseVars, audioVars, metric_call, classify_call, detect_call, histVars, poseHist, ramp, audioHist, sessVars>>

NextGate == RegisterEventCall

SpecGate == Init /\ [][NextGate]_vars

(***************************************************************************)
(* _movement_metric and _invalidate_state called on their own on one       *)
(* analyzer, with any masked landmark array.                               *)
(***************************************************************************)

MetricLandmarks == 2
MetricArrays == [1 .. MetricLandmarks -> Points]

MovementMetricCall ==
    /\ \E landmarks \in MetricArrays :
          LET r == movement_metric(prev_world_landmarks, landmarks)
          IN /\ prev_world_landmarks' = r.prev
             /\ metric_call' = <<[prev |-> prev_world_landmarks, landmarks |-> landmarks, score |-> r.score, detected |-> r.detected, stored |-> r.prev]>>
    /\ UNCHANGED <<now, connVars, arbVars, loopVars, previous_angle, audioVars, gate_call, classify_call, detect_call, histVars, poseHist, ramp, audioHist, sessVars>>

InvalidateStateCall ==
    /\ previous_angle' = invalidate_state(Pose).previous_angle
    /\ prev_world_landmarks' = invalidate_state(Pose).prev_world_landmarks
    /\ UNCHANGED <<now, connVars, arbVars, loopVars, audioVars, callVars, histVars, poseHist, ramp, audioHist, sessVars>>

NextMetric ==
    \/ MovementMetricCall
    \/ InvalidateStateCall

SpecMetric == Init /\ [][NextMetric]_vars

(***************************************************************************)
(* _classify_posture called on its own, with a torso angle and a forward   *)
(* ratio around every threshold and each leg feature absent or around its  *)
(* thresholds.  The function reads and writes no analyzer state beyond the *)
(* thresholds, so one call per behaviour covers it.                        *)
(***************************************************************************)

ClassifyAngles == {Deg(10), Deg(40), Deg(41), Deg(69), Deg(70), Deg(73), Deg(80)}
ClassifyForwardRatios == {10, 40, 41, 52, 53}
KneeAngles == {<<>>, <<Deg(60)>>, <<Deg(70)>>, <<Deg(110)>>, <<Deg(150)>>, <<Deg(170)>>}
LegExtensions == {<<>>, <<10>>, <<18>>, <<20>>, <<22>>}
LegSpans == {<<>>, <<17>>, <<18>>, <<22>>}
KneeSpans == {<<>>, <<9>>, <<10>>, <<12>>}

ClassifyPostureCall ==
    /\ classify_call = <<>>
    /\ \E angle_deg \in ClassifyAngles, forward_component \in ClassifyForwardRatios, avg_knee_angle \in KneeAngles,
          leg_extension \in LegExtensions, leg_span \in LegSpans, knee_span \in KneeSpans :
          classify_call' = <<[angle_deg |-> angle_deg, forward_component |-> forward_component, avg_knee_angle |-> avg_knee_angle,
                              leg_extension |-> leg_extension, leg_span |-> leg_span, knee_span |-> knee_span,
                              ret |-> classify_posture(angle_deg, forward_component, avg_knee_angle, leg_extension, leg_span, knee_span)]>>
    /\ UNCHANGED <<now, connVars, arbVars, loopVars, poseVars, audioVars, gate_call, metric_call, detect_call, histVars, poseHist, ramp, audioHist, sessVars>>

NextClassify == ClassifyPostureCall

SpecClassify == Init /\ [][NextClassify]_vars

(***************************************************************************)
(* The ramp scenario: one analyzer is fed RampFrames frames whose raw      *)
(* torso angle rises linearly from 10 to 80 degrees, every landmark        *)
(* visible and still, the forward ratio and the leg features fixed for the *)
(* whole ramp.                                                             *)
(***************************************************************************)

RampFrames == 10

RampAngle(i) == Deg(10) + (Deg(70) * (i - 1)) \div (RampFrames - 1)

RampFeatureSets ==
    [forward_component : ClassifyForwardRatios, avg_knee_angle : KneeAngles, leg_extension : LegExtensions, leg_span : LegSpans, knee_span : KneeSpans]

RampStart ==
    /\ ramp.features = <<>>
    /\ \E f \in RampFeatureSets : ramp' = [ramp EXCEPT !.features = <<f>>]
    /\ UNCHANGED <<now, connVars, arbVars, loopVars, poseVars, audioVars, callVars, histVars, poseHist, audioHist, sessVars>>

RampFrame ==
    /\ ramp.features # <<>>
    /\ ramp.i < RampFrames
    /\ LET frame == [kind |-> "body", angle_deg |-> RampAngle(ramp.i + 1), features |-> ramp.features[1], landmarks |-> [j \in 1 .. NumLandmarks |-> <<0>>]]
           r == process_frame(Pose, frame)
       IN /\ previous_angle' = r.pose.previous_angle
          /\ prev_world_landmarks' = r.pose.prev_world_landmarks
          /\ observation' = r.observation
          /\ ramp' = [ramp EXCEPT !.i = @ + 1, !.postures = Append(@, r.observation[1].posture)]
    /\ UNCHANGED <<now, connVars, arbVars, events, audioVars, callVars, histVars, poseHist, audioHist, sessVars>>

NextRamp ==
    \/ RampStart
    \/ RampFrame

SpecRamp == Init /\ [][NextRamp]_vars

(***************************************************************************)
(* CryDetector.  A sample is its position in the input stream and its      *)
(* kind: silence, or a full-scale tone inside the 400-1500 Hz band.  The   *)
(* buffer is the sequence of the samples it holds.                         *)
(***************************************************************************)

SampleRate == 4
MaxCalls == 2

\* CryDetector.__init__
window_size == SampleRate * 2
hop_size == SampleRate \div 2
\* Energies are in ten-thousandths, spectral energies in units of 1e-8, the band
\* ratio in hundredths.
EnergyThreshold == 100
BandRatioThreshold == 45
TotalEnergyFloor == 1

MaxChunk == window_size + 3 * hop_size

\* Mutant: a band ratio equal to the threshold is a cry.
detect_decision_inclusive(energy, total_energy, band_energy) ==
    IF energy < EnergyThreshold THEN FALSE
    ELSE IF total_energy <= TotalEnergyFloor THEN FALSE
    ELSE 100 * band_energy >= BandRatioThreshold * total_energy

\* _detect, from the measures of the window on: TRUE when a CryEvent is returned.
\* band_energy is np.sum(psd[band_mask]), so ratio_mid_band is band_energy / total_energy.
detect_decision(energy, total_energy, band_energy) ==
    IF energy < EnergyThreshold THEN FALSE
    ELSE IF total_energy <= TotalEnergyFloor THEN FALSE
    ELSE 100 * band_energy > BandRatioThreshold * total_energy

\* _detect on a window of samples.  The energy is the mean square of the window;
\* all the spectral energy of the tone lies in the band.
detect(window) ==
    LET loud == Cardinality({i \in DOMAIN window : window[i].kind = "cry"})
        energy == (10000 * loud) \div Len(window)
        total_energy == 100 * loud
    IN detect_decision(energy, total_energy, total_energy)

\* Mutant: the buffer advances by a whole window.
window_advance(buffer) == SubSeq(buffer, window_size + 1, Len(buffer))

\* Mutant: the buffer advances by one sample.
sample_advance(buffer) == SubSeq(buffer, 2, Len(buffer))

\* self._buffer[self.hop_size :]
hop_advance(buffer) == SubSeq(buffer, hop_size + 1, Len(buffer))

\* The while loop of process_samples: the buffer it leaves, the start positions of
\* the windows it analyzed, and whether it returned an event.
RECURSIVE window_loop(_, _)
window_loop(buffer, starts) ==
    IF Len(buffer) >= window_size
    THEN LET window == SubSeq(buffer, 1, window_size)
             rest == hop_advance(buffer)
         IN IF detect(window)
            THEN [buffer |-> rest, starts |-> Append(starts, window[1].pos), event |-> TRUE]
            ELSE window_loop(rest, Append(starts, window[1].pos))
    ELSE [buffer |-> buffer, starts |-> starts, event |-> FALSE]

\* Mutant: returning an event empties the buffer.
process_samples_drop_pending(buffer, samples) ==
    LET r == window_loop(buffer \o samples, <<>>)
    IN IF r.event THEN [r EXCEPT !.buffer = <<>>] ELSE r

\* CryDetector.process_samples
process_samples(buffer, samples) == window_loop(buffer \o samples, <<>>)

\* AudioAnalyzer.process_frame, "Initialise le detecteur a la premiere frame".
NewCryDetector ==
    /\ detector = <<>>
    /\ detector' = <<[buffer |-> <<>>]>>
    /\ UNCHANGED <<now, connVars, arbVars, loopVars, poseVars, record_audio, wave_file, last_cry_ts, callVars, histVars, poseHist, ramp, audioHist, sessVars>>

\* The positions of the tone in a chunk of n samples: nowhere, everywhere, or one
\* sample, placed so that it first falls into the first, second, third or fourth
\* window of the chunk.
ChunkShapes(n) ==
    {{}, 1 .. n} \cup {{p} : p \in {1, window_size + 1, window_size + hop_size + 1, window_size + 2 * hop_size + 1} \cap (1 .. n)}

\* One call of process_samples with a chunk of n samples.
ProcessSamplesCall ==
    /\ detector # <<>>
    /\ stream.calls < MaxCalls
    /\ \E n \in 0 .. MaxChunk : \E tone \in ChunkShapes(n) :
          LET samples == [i \in 1 .. n |-> [pos |-> stream.fed + i, kind |-> IF i \in tone THEN "cry" ELSE "quiet"]]
              r == process_samples(detector[1].buffer, samples)
          IN /\ detector' = <<[buffer |-> r.buffer]>>
             /\ audio_call' = <<[before |-> detector[1].buffer, samples |-> samples, after |-> r.buffer, windows |-> Len(r.starts), event |-> r.event]>>
             /\ stream' = [fed |-> stream.fed + n, calls |-> stream.calls + 1,
                            kinds |-> stream.kinds \o [i \in 1 .. n |-> samples[i].kind],
                            starts |-> stream.starts \o r.starts,
                            events |-> IF r.event THEN Append(stream.events, r.starts[Len(r.starts)]) ELSE stream.events]
    /\ UNCHANGED <<now, connVars, arbVars, loopVars, poseVars, record_audio, wave_file, last_cry_ts, callVars, histVars, poseHist, ramp, cry, loop, sessVars>>

NextAudio ==
    \/ NewCryDetector
    \/ ProcessSamplesCall

SpecAudio == Init /\ [][NextAudio]_vars

(***************************************************************************)
(* AudioAnalyzer.process_frame and AudioAnalyzer.close, called in any      *)
(* order.  A frame carries no sample, half a second or two seconds of      *)
(* silence or of tone; the event's timestamp is the clock read in _detect. *)
(***************************************************************************)

MaxAudioFrames == 3

\* Mutant: a suppressed detection restarts the cooldown.
audio_process_frame_restart(a, recording, samples, t) ==
    IF Len(samples) = 0 THEN [audio |-> a, detected |-> FALSE, event |-> FALSE]
    ELSE
        LET opened == recording /\ a.wave_file = None
            buffer == IF opened \/ a.detector = <<>> THEN <<>> ELSE a.detector[1].buffer
            r == process_samples(buffer, samples)
            accepted == r.event /\ (t - a.last_cry_ts) >= CryCooldown
        IN [audio |-> [wave_file |-> IF opened THEN "open" ELSE a.wave_file,
                       detector |-> <<[buffer |-> r.buffer]>>,
                       last_cry_ts |-> IF r.event THEN t ELSE a.last_cry_ts],
            detected |-> r.event,
            event |-> accepted]

\* AudioAnalyzer.process_frame on the audio analyzer a, with the samples of the
\* frame (pcm, mono) and the clock t read by _detect.  The detector is created
\* when there is none, and created anew by ensure_writer when it opens the file.
audio_process_frame(a, recording, samples, t) ==
    IF Len(samples) = 0 THEN [audio |-> a, detected |-> FALSE, event |-> FALSE]
    ELSE
        LET opened == recording /\ a.wave_file = None
            buffer == IF opened \/ a.detector = <<>> THEN <<>> ELSE a.detector[1].buffer
            r == process_samples(buffer, samples)
            accepted == r.event /\ (t - a.last_cry_ts) >= CryCooldown
        IN [audio |-> [wave_file |-> IF opened THEN "open" ELSE a.wave_file,
                       detector |-> <<[buffer |-> r.buffer]>>,
                       last_cry_ts |-> IF accepted THEN t ELSE a.last_cry_ts],
            detected |-> r.event,
            event |-> accepted]

AudioFrameSizes == {0, hop_size, window_size}

AudioProcessFrame ==
    /\ cry.frames < MaxAudioFrames
    /\ \E n \in AudioFrameSizes, kind \in {"quiet", "cry"}, t \in now .. Min(now + MaxStep, MaxTime) :
          LET samples == [i \in 1 .. n |-> [pos |-> cry.fed + i, kind |-> kind]]
              r == audio_process_frame([wave_file |-> wave_file, detector |-> detector, last_cry_ts |-> last_cry_ts],
                                       record_audio, samples, t)
          IN /\ now' = t
             /\ wave_file' = r.audio.wave_file
             /\ detector' = r.audio.detector
             /\ last_cry_ts' = r.audio.last_cry_ts
             /\ cry' = [frames |-> cry.frames + 1, fed |-> cry.fed + n,
                         returned |-> IF r.event THEN Append(cry.returned, t) ELSE cry.returned,
                         suppressed |-> IF r.detected /\ ~r.event THEN Append(cry.suppressed, t) ELSE cry.suppressed,
                         last |-> <<[detected |-> r.detected, event |-> r.event, ts |-> t,
                                     last_before |-> last_cry_ts, last_after |-> r.audio.last_cry_ts]>>]
    /\ UNCHANGED <<connVars, arbVars, loopVars, poseVars, record_audio, callVars, histVars, poseHist, ramp, audio_call, stream, loop, sessVars>>

AudioClose ==
    LET audio == audio_close([wave_file |-> wave_file, detector |-> detector, last_cry_ts |-> last_cry_ts])
    IN /\ wave_file' = audio.wave_file
       /\ detector' = audio.detector
       /\ last_cry_ts' = audio.last_cry_ts
       /\ UNCHANGED <<now, connVars, arbVars, loopVars, poseVars, record_audio, callVars, histVars, poseHist, ramp, audioHist, sessVars>>

NextCry ==
    \/ AudioProcessFrame
    \/ AudioClose

SpecCry == InitConfigured /\ [][NextCry]_vars

(***************************************************************************)
(* One call of CryDetector.process_samples on a new detector, taken one    *)
(* turn of its while loop at a time, for detectors of several sample       *)
(* rates: window_size = int(sample_rate * 2.0), hop_size =                 *)
(* int(sample_rate * 0.5).                                                 *)
(***************************************************************************)

MaxSampleRate == 4
MaxLoopChunk == 8

\* CryDetector.__init__: int(sample_rate * window_seconds), int(sample_rate * hop_seconds)
window_size_of(sample_rate) == sample_rate * 2
hop_size_of(sample_rate) == sample_rate \div 2

\* The chunk is appended to the buffer and the loop is entered.
LoopCall ==
    /\ loop.at = "idle"
    /\ \E sample_rate \in 1 .. MaxSampleRate, n \in 0 .. MaxLoopChunk, kind \in {"quiet", "cry"}, last \in {"quiet", "cry"} :
          loop' = [at |-> "loop", window_size |-> window_size_of(sample_rate), hop_size |-> hop_size_of(sample_rate),
                   buffer |-> [i \in 1 .. n |-> [pos |-> i, kind |-> IF i = n THEN last ELSE kind]],
                   event |-> FALSE]
    /\ UNCHANGED <<now, connVars, arbVars, loopVars, poseVars, audioVars, callVars, histVars, poseHist, ramp, audio_call, stream, cry, sessVars>>

\* One test of "while self._buffer.size >= self.window_size" and, when it holds,
\* one turn of the body: the window is taken, the buffer loses hop_size samples,
\* and the call returns the event if _detect gives one.
LoopTurn ==
    /\ loop.at = "loop"
    /\ loop' = IF Len(loop.buffer) >= loop.window_size
               THEN LET window == SubSeq(loop.buffer, 1, loop.window_size)
                        rest == SubSeq(loop.buffer, loop.hop_size + 1, Len(loop.buffer))
                    IN IF Len(window) > 0 /\ detect(window)
                       THEN [loop EXCEPT !.buffer = rest, !.at = "returned", !.event = TRUE]
                       ELSE [loop EXCEPT !.buffer = rest]
               ELSE [loop EXCEPT !.at = "returned"]
    /\ UNCHANGED <<now, connVars, arbVars, loopVars, poseVars, audioVars, callVars, histVars, poseHist, ramp, audio_call, stream, cry, sessVars>>

NextLoop ==
    \/ LoopCall
    \/ LoopTurn

SpecLoop == Init /\ [][NextLoop]_vars

\* The call, once made, runs on: every turn of the loop that can be taken is taken.
SpecLoopLive == SpecLoop /\ WF_vars(LoopTurn)

(***************************************************************************)
(* _detect called on its own, on windows whose energy, total spectral      *)
(* energy and in-band spectral energy lie around the thresholds.  It keeps *)
(* no state, so one call per behaviour covers it.                          *)
(***************************************************************************)

WindowEnergies == {0, 50, 99, 100, 101, 5000, 10000}
SpectralEnergies == {0, 1, 2, 20, 100}
BandEnergies == {0, 1, 2, 9, 10, 20, 45, 46, 100}

DetectCall ==
    /\ detect_call = <<>>
    /\ \E energy \in WindowEnergies, total_energy \in SpectralEnergies :
          \E band_energy \in {b \in BandEnergies : b <= total_energy} :
             detect_call' = <<[energy |-> energy, total_energy |-> total_energy, band_energy |-> band_energy,
                              ret |-> detect_decision(energy, total_energy, band_energy)]>>
    /\ UNCHANGED <<now, connVars, arbVars, loopVars, poseVars, audioVars, gate_call, metric_call, classify_call, histVars, poseHist, ramp, audioHist, sessVars>>

NextDetect == DetectCall

SpecDetect == Init /\ [][NextDetect]_vars

(***************************************************************************)
(* The session of one client: the WebSocket of run, the signaling          *)
(* messages, the track and state callbacks of the peer connection, the     *)
(* consumption tasks with their awaits, and close.  Each action is one run *)
(* of a coroutine on the event loop from one await to the next; the        *)
(* landmark estimation runs in between, on a thread of the executor.  The  *)
(* clock stands still, the video frames are failures or a body lying       *)
(* still, the audio frames are silence.                                    *)
(***************************************************************************)

MaxTasks == 2

Callbacks == {"ice", "connection"}
Ended == {"ended", "cancelled"}

SessionFrames ==
    {[kind |-> "raise"], [kind |-> "none"],
     [kind |-> "body", angle_deg |-> Deg(80),
      features |-> [forward_component |-> 10, avg_knee_angle |-> <<>>, leg_extension |-> <<>>, leg_span |-> <<>>, knee_span |-> <<>>],
      landmarks |-> [i \in 1 .. NumLandmarks |-> <<0>>]]}

SilentFrame == [i \in 1 .. window_size |-> [pos |-> 0, kind |-> "quiet"]]

Alive(kind) == {i \in DOMAIN tasks : tasks[i].kind = kind /\ tasks[i].at \notin Ended}
Calls == {i \in DOMAIN tasks : tasks[i].call}

\* The event loop's thread is not inside a call.
LoopFree == \A i \in Calls : tasks[i].thread = "executor"

\* The task that _video_task or _audio_task refers to: the last one created.
Last(S) == CHOOSE i \in S : \A j \in S : j <= i
task_of(ts, kind, ref) ==
    LET S == {i \in DOMAIN ts : ts[i].kind = kind}
    IN IF ref = None \/ S = {} THEN {} ELSE {Last(S)}

\* Mutant: process_frame is called by the task itself, on the event loop.
submit_estimation_inline(task) ==
    [task EXCEPT !.at = "estimate", !.call = TRUE, !.thread = "loop"]

\* _consume_video, run_in_executor(None, self._pose_analyzer.process_frame, frame_bgr):
\* the call is handed to a thread of the default executor and the task awaits it.
submit_estimation(task) ==
    [task EXCEPT !.at = "estimate", !.call = TRUE, !.thread = "executor"]

\* Mutant: an exception of the analysis ends the loop.
after_analysis_error_break(task) == [task EXCEPT !.at = "ended"]

\* _consume_video and _consume_audio, except Exception: logging.exception; continue
after_analysis_error(task) == [task EXCEPT !.at = "recv"]

\* Mutant: a rejoin request does not look at the lock.
rejoin_admit_unlocked(socket, locked) ==
    IF socket # "open" THEN "closed" ELSE "acquired"

\* _attempt_rejoin up to the lock: what becomes of the request.
rejoin_admit(socket, locked) ==
    IF socket # "open" THEN "closed"
    ELSE IF locked THEN "ignored"
    ELSE "acquired"

\* _reset on the tasks: the tasks referred to are cancelled.  A call that a thread
\* of the executor is running goes on to its end.
cancel_tasks(ts, vref, aref) ==
    LET C == task_of(ts, "video", vref) \cup task_of(ts, "audio", aref)
    IN [i \in DOMAIN ts |-> IF i \in C /\ ts[i].at \notin Ended THEN [ts[i] EXCEPT !.at = "cancelled"] ELSE ts[i]]

\* _reset, as a part of the handlers that call it.
ResetSession ==
    /\ tasks' = cancel_tasks(tasks, video_task, audio_task)
    /\ video_task' = None
    /\ audio_task' = None
    /\ pc' = None
    /\ current_posture' = None
    /\ wave_file' = None
    /\ detector' = <<>>

sessRest == <<now, loopVars, callVars, histVars, poseHist, ramp, audioHist, record_audio, last_cry_ts>>
arbRest == <<last_event_label, last_event_ts, last_movement_event_ts, wake_candidate_posture, wake_candidate_since, is_awake>>

\* Mutant: run gives up when a connection is lost or cannot be made.
after_connection_give_up(stop) == "returned"

\* run, after a connection has ended or failed: break when the stop is requested,
\* else asyncio.sleep(2) and back to the head of the loop.
after_connection(stop) == IF stop THEN "returned" ELSE "waiting"

\* run, "while not self._stop_requested": the loop is entered (or, after the
\* sleep, entered again) and websockets.connect is awaited, or run returns.
RunLoopHead ==
    /\ LoopFree
    /\ run_at = "waiting"
    /\ run_at' = IF stop_requested THEN "returned" ELSE "connecting"
    /\ raised' = 0
    /\ UNCHANGED <<ws, connVars, tasks, rejoin_lock, rejoin, stop_requested, landmarker, arbVars, poseVars, wave_file, detector, sessRest>>

\* run: the WebSocket is connected, join is sent, the peer connection is set up
\* and the signaling loop is entered.
RunConnected ==
    /\ LoopFree
    /\ run_at = "connecting"
    /\ run_at' = "signaling"
    /\ ws' = "open"
    /\ pc' = "open"
    /\ raised' = 0
    /\ UNCHANGED <<video_task, audio_task, tasks, rejoin_lock, rejoin, stop_requested, landmarker, arbVars, poseVars, wave_file, detector, sessRest>>

\* run: websockets.connect raises.
RunConnectFailed ==
    /\ LoopFree
    /\ run_at = "connecting"
    /\ run_at' = after_connection(stop_requested)
    /\ raised' = 0
    /\ UNCHANGED <<ws, connVars, tasks, rejoin_lock, rejoin, stop_requested, landmarker, arbVars, poseVars, wave_file, detector, sessRest>>

\* The WebSocket is closed by the network or the server.
WsDrop ==
    /\ ws = "open"
    /\ ws' = "closed"
    /\ raised' = 0
    /\ UNCHANGED <<connVars, tasks, rejoin_lock, rejoin, stop_requested, landmarker, arbVars, poseVars, wave_file, detector, run_at, sessRest>>

\* The WebSocket is closed (by the other side, or by close): the signaling loop
\* ends or raises ConnectionClosed, run leaves the connection, _ws = None.
RunLeave ==
    /\ LoopFree
    /\ run_at = "signaling"
    /\ ws # "open"
    /\ ws' = "none"
    /\ run_at' = after_connection(stop_requested)
    /\ raised' = 0
    /\ UNCHANGED <<connVars, tasks, rejoin_lock, rejoin, stop_requested, landmarker, arbVars, poseVars, wave_file, detector, sessRest>>

\* An unexpected exception ends the signaling loop while the WebSocket is open:
\* run leaves the connection, which closes the socket, _ws = None.
RunError ==
    /\ LoopFree
    /\ run_at = "signaling"
    /\ ws = "open"
    /\ ws' = "none"
    /\ run_at' = after_connection(stop_requested)
    /\ raised' = 0
    /\ UNCHANGED <<connVars, tasks, rejoin_lock, rejoin, stop_requested, landmarker, arbVars, poseVars, wave_file, detector, sessRest>>

\* _handle_offer: a peer connection is set up when there is none.
Offer ==
    /\ LoopFree
    /\ ws = "open"
    /\ pc = None
    /\ pc' = "open"
    /\ raised' = 0
    /\ UNCHANGED <<ws, video_task, audio_task, tasks, rejoin_lock, rejoin, stop_requested, landmarker, arbVars, poseVars, wave_file, detector, run_at, sessRest>>

\* _signaling_loop, "peer-left": _reset.
PeerLeft ==
    /\ LoopFree
    /\ ws = "open"
    /\ ResetSession
    /\ raised' = 0
    /\ UNCHANGED <<ws, rejoin_lock, rejoin, stop_requested, landmarker, arbRest, poseVars, run_at, sessRest>>

\* on_track: a task is created for the track and stored; an older task is left alone.
TrackEvent ==
    /\ LoopFree
    /\ pc = "open"
    /\ Len(tasks) < MaxTasks
    /\ \E kind \in {"video", "audio"} :
          /\ tasks' = Append(tasks, [kind |-> kind, at |-> "recv", call |-> FALSE, thread |-> "none"])
          /\ video_task' = IF kind = "video" THEN "running" ELSE video_task
          /\ audio_task' = IF kind = "audio" THEN "running" ELSE audio_task
    /\ raised' = 0
    /\ UNCHANGED <<ws, pc, rejoin_lock, rejoin, stop_requested, landmarker, arbVars, poseVars, wave_file, detector, run_at, sessRest>>

\* on_ice_state_change and on_connection_state_change with the state "failed":
\* _attempt_rejoin, up to its first await.
AttemptRejoin ==
    /\ LoopFree
    /\ pc = "open"
    /\ \E cb \in Callbacks :
          LET outcome == rejoin_admit(ws, rejoin_lock)
          IN /\ rejoin[cb] = "idle"
             /\ rejoin_lock' = (rejoin_lock \/ outcome = "acquired")
             /\ rejoin' = IF outcome = "acquired" THEN [rejoin EXCEPT ![cb] = "reset"] ELSE rejoin
    /\ raised' = 0
    /\ UNCHANGED <<ws, connVars, tasks, stop_requested, landmarker, arbVars, poseVars, wave_file, detector, run_at, sessRest>>

\* _attempt_rejoin, under the lock: await self._reset().
RejoinReset ==
    /\ LoopFree
    /\ \E cb \in Callbacks :
          /\ rejoin[cb] = "reset"
          /\ rejoin' = [rejoin EXCEPT ![cb] = "join"]
    /\ ResetSession
    /\ raised' = 0
    /\ UNCHANGED <<ws, rejoin_lock, stop_requested, landmarker, arbRest, poseVars, run_at, sessRest>>

\* _attempt_rejoin, under the lock: join is sent and the peer connection set up, or
\* the send fails; the lock is released.
RejoinJoin ==
    /\ LoopFree
    /\ \E cb \in Callbacks :
          /\ rejoin[cb] = "join"
          /\ rejoin' = [rejoin EXCEPT ![cb] = "idle"]
    /\ pc' = IF ws = "open" THEN "open" ELSE pc
    /\ rejoin_lock' = FALSE
    /\ raised' = 0
    /\ UNCHANGED <<ws, video_task, audio_task, tasks, stop_requested, landmarker, arbVars, poseVars, wave_file, detector, run_at, sessRest>>

\* One turn of the loop of a task up to its next await: track.recv() raises and the
\* loop ends, or it returns a frame; a video frame is handed to the estimation, an
\* audio frame is analyzed at once, and an exception of the analysis is logged.
TaskRecv ==
    /\ LoopFree
    /\ \E i \in DOMAIN tasks, outcome \in {"ended", "error", "frame", "raise"} :
          /\ tasks[i].at = "recv"
          /\ outcome = "raise" => tasks[i].kind = "audio"
          /\ LET a == audio_process_frame([wave_file |-> wave_file, detector |-> detector, last_cry_ts |-> last_cry_ts],
                                          record_audio, SilentFrame, now).audio
                 analyzed == tasks[i].kind = "audio" /\ outcome = "frame"
             IN /\ tasks' = [tasks EXCEPT ![i] =
                                 IF outcome \in {"ended", "error"} THEN [@ EXCEPT !.at = "ended"]
                                 ELSE IF outcome = "raise" THEN after_analysis_error(@)
                                 ELSE IF @.kind = "video" THEN submit_estimation(@)
                                 ELSE @]
                /\ wave_file' = IF analyzed THEN a.wave_file ELSE wave_file
                /\ detector' = IF analyzed THEN a.detector ELSE detector
                /\ raised' = IF outcome = "raise" THEN i ELSE 0
    /\ UNCHANGED <<ws, connVars, rejoin_lock, rejoin, stop_requested, landmarker, arbVars, poseVars, run_at, sessRest>>

\* The call of process_frame comes to its end on its thread.  (Two calls at the
\* same time write the same state here, whatever state each of them has read: the
\* body lies still.)  The task, unless cancelled meanwhile, goes on: an exception
\* is logged, an observation goes to _handle_pose_observation.
EstimationDone ==
    /\ \E i \in Calls, frame \in SessionFrames :
          LET r == process_frame(Pose, frame)
              waiting == tasks[i].at = "estimate"
              h == IF waiting /\ r.observation # <<>> THEN handle_pose_observation(Arb, r.observation[1], now).arb ELSE Arb
          IN /\ landmarker = "closed" => frame.kind = "raise"
             /\ previous_angle' = IF r.raised THEN previous_angle ELSE r.pose.previous_angle
             /\ prev_world_landmarks' = IF r.raised THEN prev_world_landmarks ELSE r.pose.prev_world_landmarks
             /\ tasks' = [tasks EXCEPT ![i] =
                              [(IF ~waiting THEN @ ELSE IF r.raised THEN after_analysis_error(@) ELSE [@ EXCEPT !.at = "recv"])
                                  EXCEPT !.call = FALSE, !.thread = "none"]]
             /\ current_posture' = h.current_posture
             /\ last_event_label' = h.last_event_label
             /\ last_event_ts' = h.last_event_ts
             /\ last_movement_event_ts' = h.last_movement_event_ts
             /\ wake_candidate_posture' = h.wake_candidate_posture
             /\ wake_candidate_since' = h.wake_candidate_since
             /\ is_awake' = h.is_awake
             /\ raised' = IF waiting /\ r.raised THEN i ELSE 0
    /\ UNCHANGED <<ws, connVars, rejoin_lock, rejoin, stop_requested, landmarker, wave_file, detector, run_at, sessRest>>

\* close: the stop is requested and _reset runs; with no WebSocket at hand the
\* analyzers are closed and close returns, else close awaits self._ws.close().
CloseBegin ==
    /\ LoopFree
    /\ ~stop_requested
    /\ stop_requested' = TRUE
    /\ ResetSession
    /\ landmarker' = IF ws = "none" THEN "closed" ELSE landmarker
    /\ raised' = 0
    /\ UNCHANGED <<ws, rejoin_lock, rejoin, arbRest, poseVars, run_at, sessRest>>

\* close, after self._ws.close(): _ws = None, both analyzers are closed, and close
\* returns.
CloseEnd ==
    /\ LoopFree
    /\ stop_requested
    /\ landmarker = "open"
    /\ ws' = "none"
    /\ landmarker' = "closed"
    /\ wave_file' = None
    /\ detector' = <<>>
    /\ raised' = 0
    /\ UNCHANGED <<connVars, tasks, rejoin_lock, rejoin, stop_requested, arbVars, poseVars, run_at, sessRest>>

NextSession ==
    \/ RunLoopHead
    \/ RunConnected
    \/ RunConnectFailed
    \/ WsDrop
    \/ RunLeave
    \/ RunError
    \/ Offer
    \/ PeerLeft
    \/ TrackEvent
    \/ AttemptRejoin
    \/ RejoinReset
    \/ RejoinJoin
    \/ TaskRecv
    \/ EstimationDone
    \/ CloseBegin
    \/ CloseEnd

SpecSession == InitRecording /\ [][NextSession]_vars

\* The event loop runs every coroutine that is ready: the sleep of run ends, the
\* attempt to connect succeeds or fails, a closed socket ends the signaling
\* loop, and close goes on after its reset.  Nothing makes the other side close
\* the socket or send a message.
SpecSessionLive ==
    /\ SpecSession
    /\ WF_vars(RunLoopHead)
    /\ WF_vars(RunConnected \/ RunConnectFailed)
    /\ WF_vars(RunLeave)
    /\ WF_vars(CloseEnd)

(***************************************************************************)
(* Properties                                                              *)
(***************************************************************************)

\* A step of SpecArb in which _handle_pose_observation ran: the connection is left
\* alone and an observation is at hand.
HandlerStep == observation' # <<>> /\ UNCHANGED connVars

\* C1: from the unset state, a run of standing observations spanning less than
\* 3.0 s emits no wake event, and neither does the lying observation that ends it
\* nor the lying observations after it.
C1_ShortStandingNoWake ==
    /\ (run.posture = "standing" /\ run.fromUnset /\ (now - run.since) < WakeMinDuration)
          => (run.wakes = 0 /\ ~HasEvent(events, "wake"))
    /\ (run.posture = "lying" /\ prevRun.posture = "standing" /\ prevRun.fromUnset /\ prevRun.span < WakeMinDuration)
          => (prevRun.wakes = 0 /\ run.wakes = 0 /\ ~HasEvent(events, "wake"))

\* C1 witness: a standing run of one or two seconds that began in the unset state has
\* just been ended by a lying observation.
C1_Witness ==
    /\ current_posture = "lying"
    /\ run.posture = "lying"
    /\ prevRun.posture = "standing"
    /\ prevRun.fromUnset
    /\ prevRun.span \in 1 .. (WakeMinDuration - 1)

\* C2: in a run of standing observations that began in the unset state, the number
\* of wake events emitted so far is 1 once an observation came 3.0 s or more after
\* the first one, and 0 before: one event, at the crossing, never a second one.
C2_ExactlyOneWake ==
    (run.posture = "standing" /\ run.fromUnset)
        => run.wakes = (IF (now - run.since) >= WakeMinDuration THEN 1 ELSE 0)

\* C2 witness: the wake event was emitted earlier in the run and the last standing
\* observation, handled while awake, emitted none.
C2_Witness ==
    /\ run.posture = "standing"
    /\ run.fromUnset
    /\ run.wakes = 1
    /\ (now - run.since) > WakeMinDuration
    /\ observation # <<>>
    /\ ~HasEvent(events, "wake")
    /\ is_awake

\* C3: the first two observations of a fresh client, identical and reporting
\* movement, give one movement event when less than 2.0 s apart and two otherwise.
C3_CooldownIdempotence ==
    (pair.n = 2 /\ pair.same /\ pair.first[1].movement_detected)
        => pair.moves = (IF pair.gap < MovementCooldown THEN 1 ELSE 2)

\* C3 witness: two identical moving observations exactly the cooldown apart, both emitted.
C3_Witness ==
    /\ pair.n = 2
    /\ pair.same
    /\ pair.first[1].movement_detected
    /\ pair.gap = MovementCooldown
    /\ pair.moves = 2

\* C4 as claimed: no event is emitted less than 2.0 s after the registration of an
\* event with another label.
C4_CrossLabelSuppressed ==
    [][\A i \in DOMAIN events' :
          LET e == events'[i]
              prevLabel == IF i = 1 THEN last_event_label ELSE events'[i - 1]["label"]
              prevTs == IF i = 1 THEN last_event_ts ELSE now'
          IN (HandlerStep /\ arbVars' # arbVars)
                => ~(prevLabel \notin {None, e["label"]} /\ (now' - prevTs) < EventCooldown)]_vars

\* C4 as amended: events with different labels do not suppress each other. A wake
\* event that is due is emitted although a movement event was registered less than
\* 2.0 s before (or in the same call), and a movement event that is due is emitted
\* although a wake event was registered less than 2.0 s before.
C4_CrossLabelNotSuppressed ==
    [][HandlerStep =>
          /\ (/\ ~is_awake
              /\ current_posture' \in Upright
              /\ wake_candidate_posture = current_posture'
              /\ (now' - wake_candidate_since) >= WakeMinDuration
              /\ \/ HasEvent(events', "movement")
                 \/ (last_event_label = "movement" /\ (now' - last_event_ts) < EventCooldown))
                => HasEvent(events', "wake")
          /\ (/\ observation'[1].movement_detected
              /\ (now' - last_movement_event_ts) >= MovementCooldown
              /\ last_event_label = "wake"
              /\ (now' - last_event_ts) < EventCooldown)
                => HasEvent(events', "movement")]_vars

\* C4 witness: one call emitted a movement event and a wake event, zero seconds apart.
C4_Witness == HasEvent(events, "movement") /\ HasEvent(events, "wake")

\* C5: _register_event rejects, leaving the last label and timestamp as they were,
\* exactly when the label is missing or equals the last label with less than 2.0 s
\* elapsed; otherwise it accepts, records label and timestamp and stamps the event.
C5_RegistrationGate ==
    [][LET c == gate_call'[1]
           reject == \/ ~HasLabel(c.event)
                     \/ (c.event["label"] = last_event_label /\ (c.timestamp - last_event_ts) < EventCooldown)
       IN IF reject
          THEN /\ ~c.ret
               /\ last_event_label' = last_event_label
               /\ last_event_ts' = last_event_ts
               /\ c.after = c.event
          ELSE /\ c.ret
               /\ last_event_label' = c.event["label"]
               /\ last_event_ts' = c.timestamp
               /\ c.after["extras"]["event_timestamp"] = c.timestamp]_vars

\* C5 witness: a labelled event was rejected exactly one second after an accepted
\* one, and the pair kept the earlier registration.
C5_Witness ==
    /\ gate_call # <<>>
    /\ ~gate_call[1].ret
    /\ HasLabel(gate_call[1].event)
    /\ gate_call[1].event["label"] = last_event_label
    /\ gate_call[1].timestamp = last_event_ts + 1

\* C7: after an observation whose posture is not sitting or standing, the wake
\* candidate is unset, its start time is cleared and is_awake is false.
C7_NonUprightResets ==
    (current_posture # None /\ current_posture \notin Upright)
        => (wake_candidate_posture = None /\ wake_candidate_since = 0 /\ ~is_awake)

\* C7 witness: a lying observation was handled right after a run that had emitted a
\* wake event, that is while is_awake was true.
C7_Witness ==
    /\ current_posture = "lying"
    /\ prevRun.posture \in Upright
    /\ prevRun.wakes = 1
    /\ run.posture = "lying"

\* C8: an upright observation handled while is_awake is true emits no wake event,
\* leaves the candidate cleared and is_awake true; and no more than one wake event
\* is emitted between two non-upright observations.
C8_AwakeNoRewake ==
    [][/\ (HandlerStep /\ is_awake /\ current_posture' \in Upright)
             => (~HasEvent(events', "wake") /\ wake_candidate_posture' = None /\ is_awake')
       /\ uprightWakes' <= 1]_vars

\* C8 witness: while awake the posture switched from one upright posture to the other.
C8_Witness ==
    /\ is_awake
    /\ prevRun.posture \in Upright
    /\ prevRun.wakes = 1
    /\ run.posture \in Upright
    /\ run.wakes = 0
    /\ current_posture = run.posture
    /\ wake_candidate_posture = None

C6_ResetRestoresInitialState ==
    [][Reset =>
          /\ wake_candidate_posture' = None
          /\ wake_candidate_since' = 0
          /\ ~is_awake'
          /\ last_event_label' = None
          /\ last_event_ts' = 0
          /\ last_movement_event_ts' = 0
          /\ previous_angle' = <<>>
          /\ prev_world_landmarks' = <<>>
          /\ detector' = <<>>
          /\ last_cry_ts' = 0]_vars

\* C10: the first frame analyzed in a session (after construction or after a
\* reset) and the first frame analyzed after an invalidation has a movement score
\* of exactly 0 and no movement detected.
C10_FirstFrameNoMovement ==
    (observation # <<>> /\ (sessionFrames = 1 \/ sinceInvalidation = 1))
        => (observation[1].movement_score.sum = 0 /\ ~observation[1].movement_detected)

\* C11: after an estimator failure (nothing detected, degenerate torso, or the
\* landmarker raising), the next valid frame's smoothed angle is its raw angle and
\* its movement score is 0.
C11_FailureInvalidates ==
    (observation # <<>> /\ sinceFailure = 1)
        => (observation[1].torso_angle = lastFrame[1].angle_deg /\ observation[1].movement_score.sum = 0)

\* The last call of _movement_metric found a baseline with which its landmarks
\* share no valid point.
NoOverlap ==
    /\ metric_call # <<>>
    /\ metric_call[1].prev # <<>>
    /\ \A i \in 1 .. MetricLandmarks : metric_call[1].landmarks[i] = <<>> \/ metric_call[1].prev[1][i] = <<>>

\* C12: a frame with no landmark valid in both its own set and the previous one
\* yields a movement score of 0 and no movement, and its set becomes the baseline.
C12_NoOverlapNoMovement ==
    NoOverlap
        => /\ metric_call[1].score = ZeroScore
           /\ ~metric_call[1].detected
           /\ metric_call[1].stored = <<metric_call[1].landmarks>>

\* C12 witness: the baseline had only the second landmark, the frame has only the
\* first (displaced from where the baseline's landmark was), and the frame's set
\* is the new baseline.
C12_Witness ==
    /\ NoOverlap
    /\ metric_call[1].prev[1] = <<<<>>, <<0>>>>
    /\ metric_call[1].landmarks = <<<<100>>, <<>>>>
    /\ metric_call[1].stored = <<metric_call[1].landmarks>>
    /\ ~metric_call[1].detected

\* C13: a frame whose torso vector is shorter than epsilon gives no observation:
\* no posture is classified for it and the loop iteration emits no event.
C13_DegenerateNoObservation ==
    (lastFrame # <<>> /\ lastFrame[1].kind = "degenerate") => (observation = <<>> /\ events = <<>>)

\* C13 witness: a degenerate frame arrives while a wake candidate is pending; the
\* iteration ends with no observation and no event.
C13_Witness ==
    /\ lastFrame # <<>>
    /\ lastFrame[1].kind = "degenerate"
    /\ framesSeen = 2
    /\ wake_candidate_posture = "sitting"
    /\ observation = <<>>
    /\ events = <<>>
    /\ previous_angle = <<>>

\* The hard lying gate and the two scores of the last call of _classify_posture.
CallGate == classify_call[1].angle_deg >= Deg(LyingAngle + 5) \/ classify_call[1].forward_component >= LyingForwardRatio + 8
CallStanding == standing_score(classify_call[1].angle_deg, classify_call[1].forward_component, classify_call[1].avg_knee_angle, classify_call[1].leg_extension, classify_call[1].leg_span, classify_call[1].knee_span)
CallSitting == sitting_score(classify_call[1].angle_deg, classify_call[1].forward_component, classify_call[1].avg_knee_angle, classify_call[1].leg_extension, classify_call[1].leg_span, classify_call[1].knee_span)

\* C14: whatever the knee angle, leg extension, leg span and knee span (present or
\* absent), _classify_posture returns 'lying' when the torso angle is at least
\* lying_angle + 5 or the forward ratio is at least lying_forward_ratio + 0.08.
C14_HardLyingGate ==
    (classify_call # <<>> /\ CallGate) => classify_call[1].ret = "lying"

\* C14 witness: straight, extended legs (four standing votes) under a torso at 80
\* degrees: lying.
C14_Witness ==
    /\ classify_call # <<>>
    /\ classify_call[1].angle_deg = Deg(80)
    /\ classify_call[1].forward_component = 10
    /\ CallStanding >= 4
    /\ classify_call[1].ret = "lying"

\* C15 as stated: below the gate, standing_score >= max(sitting_score, 2) gives
\* 'standing', sitting_score >= max(standing_score, 2) gives 'sitting', and a
\* score of 1 does not decide: 'standing' is returned only with a standing score
\* of at least 2.
C15_WinnerTakeAllSymmetric ==
    (classify_call # <<>> /\ ~CallGate)
        => /\ CallStanding >= Max(CallSitting, 2) => classify_call[1].ret = "standing"
           /\ CallSitting >= Max(CallStanding, 2) => classify_call[1].ret = "sitting"
           /\ classify_call[1].ret = "standing" => CallStanding >= 2

\* C15 amended: below the gate, 'standing' is returned exactly when
\* standing_score >= max(sitting_score, 2), so a tie at 2 or more goes to
\* standing; 'sitting' is returned by this rule when sitting_score >= 2 and
\* sitting_score > standing_score.
C15_WinnerTakeAllStandingFirst ==
    (classify_call # <<>> /\ ~CallGate)
        => /\ classify_call[1].ret = "standing" <=> CallStanding >= Max(CallSitting, 2)
           /\ (CallSitting >= 2 /\ CallSitting > CallStanding) => classify_call[1].ret = "sitting"

\* C15 witness: a knee angle of exactly 150 votes for both classes, the other
\* features split evenly: a tie at 3, returned as standing.
C15_Witness ==
    /\ classify_call # <<>>
    /\ ~CallGate
    /\ classify_call[1].avg_knee_angle = <<Deg(150)>>
    /\ CallStanding = 3
    /\ CallSitting = 3
    /\ classify_call[1].ret = "standing"

\* C16: when neither score reaches 2, the torso angle alone decides: a near-upright
\* angle (at most standing_angle + 6) gives 'standing', a mid-range angle (at most
\* lying_angle + 8) gives 'sitting', anything else gives 'lying'.
C16_FallbackByAngle ==
    (classify_call # <<>> /\ ~CallGate /\ CallStanding < 2 /\ CallSitting < 2)
        => classify_call[1].ret =
              IF classify_call[1].angle_deg <= Deg(StandingAngle + 6) THEN "standing"
              ELSE IF classify_call[1].angle_deg <= Deg(LyingAngle + 8) THEN "sitting"
              ELSE "lying"

\* C17: an absent feature votes for neither class: making any of the optional
\* features of a call absent raises neither standing_score nor sitting_score, and
\* with all four absent only the torso test is left to vote.
C17_AbsentFeaturesAbstain ==
    classify_call # <<>>
        => LET c == classify_call[1]
           IN /\ \A k \in {<<>>, c.avg_knee_angle}, e \in {<<>>, c.leg_extension}, ls \in {<<>>, c.leg_span}, ks \in {<<>>, c.knee_span} :
                    /\ standing_score(c.angle_deg, c.forward_component, k, e, ls, ks) <= CallStanding
                    /\ sitting_score(c.angle_deg, c.forward_component, k, e, ls, ks) <= CallSitting
              /\ standing_score(c.angle_deg, c.forward_component, <<>>, <<>>, <<>>, <<>>) + sitting_score(c.angle_deg, c.forward_component, <<>>, <<>>, <<>>, <<>>) <= 1

\* C17 witness: the knee angle and the leg span are present and vote for standing,
\* the leg extension and the knee span are absent and vote for nothing.
C17_Witness ==
    /\ classify_call # <<>>
    /\ classify_call[1].angle_deg = Deg(10)
    /\ classify_call[1].forward_component = 10
    /\ classify_call[1].avg_knee_angle = <<Deg(170)>>
    /\ classify_call[1].leg_extension = <<>>
    /\ classify_call[1].leg_span = <<22>>
    /\ classify_call[1].knee_span = <<>>
    /\ CallStanding = 3
    /\ CallSitting = 0
    /\ classify_call[1].ret = "standing"

\* C18: every observation returned by process_frame has a posture that is one of
\* lying, sitting, standing.
C18_PostureIsATag ==
    observation # <<>> => observation[1].posture \in Postures

\* C18 witness: a frame at 80 degrees after one at 10 degrees is analyzed at the
\* blended angle of 38 degrees and, with straight legs, tagged standing.
C18_Witness ==
    /\ observation # <<>>
    /\ lastFrame[1].kind = "body"
    /\ lastFrame[1].angle_deg = Deg(80)
    /\ observation[1].torso_angle = Deg(38)
    /\ observation[1].posture = "standing"

\* Once a posture is left it never recurs.
NoOscillation(ps) == \A a, b, c \in DOMAIN ps : (a < b /\ b < c /\ ps[a] = ps[c]) => ps[b] = ps[a]

\* The sequence is some standing frames, then some sitting frames, then some lying
\* frames, with at least one of each.
StandingSittingLying(ps) ==
    \E a, b \in DOMAIN ps :
        /\ a < b
        /\ b < Len(ps)
        /\ \A k \in DOMAIN ps : ps[k] = IF k <= a THEN "standing" ELSE IF k <= b THEN "sitting" ELSE "lying"

\* C19 as stated: the postures emitted over the whole ramp are standing, then
\* sitting, then lying.
C19_RampStandingSittingLying ==
    ramp.i = RampFrames => StandingSittingLying(ramp.postures)

\* C19 amended: over the ramp no posture recurs once left and sitting is never
\* followed by standing; the smoothed angle stays below the lying gate, so no
\* frame is lying unless the fixed forward ratio fires the gate, and then every
\* frame is.
C19_RampMonotoneNeverLying ==
    /\ NoOscillation(ramp.postures)
    /\ \A a, b \in DOMAIN ramp.postures : (a < b /\ ramp.postures[a] = "sitting") => ramp.postures[b] = "sitting"
    /\ ramp.i > 0 => previous_angle[1] < Deg(LyingAngle + 5)
    /\ \A k \in DOMAIN ramp.postures : ramp.postures[k] = "lying" <=> ramp.features[1].forward_component >= LyingForwardRatio + 8

\* C19 witness: every leg feature is seen, the knee angle votes standing and the
\* leg extension votes sitting; the ramp ends after six standing and four sitting
\* frames at a smoothed angle of 68.44 degrees.
C19_Witness ==
    /\ ramp.i = 10
    /\ ramp.features = <<[forward_component |-> 10, avg_knee_angle |-> <<Deg(170)>>, leg_extension |-> <<10>>, leg_span |-> <<18>>, knee_span |-> <<10>>]>>
    /\ ramp.postures = <<"standing", "standing", "standing", "standing", "standing", "standing", "sitting", "sitting", "sitting", "sitting">>
    /\ previous_angle = <<6844>>

\* C20: a call that leaves the buffer short of a window only appends its samples;
\* every window analyzed removes exactly hop_size samples from the front of the
\* buffer, so the windows start hop_size samples apart in the input stream, from
\* its first sample on and across calls; after a call that returned None the
\* buffer holds fewer than window_size samples.
C20_AudioBufferInvariant ==
    audio_call # <<>>
        => LET c == audio_call[1]
               all == c.before \o c.samples
           IN /\ Len(all) < window_size => (c.after = all /\ c.windows = 0)
              /\ c.after = SubSeq(all, hop_size * c.windows + 1, Len(all))
              /\ \A k \in DOMAIN stream.starts : stream.starts[k] = 1 + hop_size * (k - 1)
              /\ \A i \in DOMAIN c.after : c.after[i].pos = stream.fed - Len(c.after) + i
              /\ ~c.event => Len(c.after) < window_size

\* C20 witness: the first call returned an event with full windows still in the
\* buffer; the second call went on from there, analyzed further windows and left
\* the buffer short of a window.
C20_Witness ==
    /\ audio_call # <<>>
    /\ stream.calls = 2
    /\ Len(audio_call[1].before) >= window_size
    /\ audio_call[1].samples # <<>>
    /\ audio_call[1].windows >= 2
    /\ ~audio_call[1].event
    /\ Len(audio_call[1].after) < window_size
    /\ Len(stream.starts) >= 3


\* The last call of process_samples started from an empty buffer with exactly
\* window_size + 3*hop_size samples.
DrainCall ==
    /\ audio_call # <<>>
    /\ audio_call[1].before = <<>>
    /\ Len(audio_call[1].samples) = window_size + 3 * hop_size

\* The j-th window of the samples of the last call.
DrainWindow(j) == SubSeq(audio_call[1].samples, 1 + (j - 1) * hop_size, (j - 1) * hop_size + window_size)

\* C21 as stated: such a call analyzes exactly 4 windows and leaves fewer than
\* window_size samples in the buffer.
C21_DrainFourWindows ==
    DrainCall => (audio_call[1].windows = 4 /\ Len(audio_call[1].after) < window_size)

\* C21 amended: such a call analyzes the windows up to the first qualifying one, or
\* all 4 when none qualifies; each removes hop_size samples; the buffer ends short
\* of a window exactly when the fourth window was analyzed.
C21_DrainUpToFirstEvent ==
    DrainCall
        => LET q == {j \in 1 .. 4 : detect(DrainWindow(j))}
               k == IF q = {} THEN 4 ELSE CHOOSE j \in q : \A i \in q : j <= i
           IN /\ audio_call[1].windows = k
              /\ audio_call[1].event = (q # {})
              /\ Len(audio_call[1].after) = window_size + (3 - k) * hop_size
              /\ Len(audio_call[1].after) < window_size <=> k = 4

\* C21 witness: silence drains through all 4 windows and leaves window_size - hop_size
\* samples.
C21_Witness ==
    /\ DrainCall
    /\ \A i \in DOMAIN audio_call[1].samples : audio_call[1].samples[i].kind = "quiet"
    /\ audio_call[1].windows = 4
    /\ ~audio_call[1].event
    /\ Len(audio_call[1].after) = window_size - hop_size


\* The windows of the input stream that are complete once n samples were fed.
FullWindows(n) == IF n < window_size THEN 0 ELSE (n - window_size) \div hop_size + 1

\* The k-th window of the input stream, as fed.
StreamWindow(k) == [i \in 1 .. window_size |-> [kind |-> stream.kinds[(k - 1) * hop_size + i]]]

\* The windows are analyzed in stream order with none skipped, and the calls that
\* returned an event are exactly the analyzed windows that qualify.
NoWindowSkipped ==
    /\ \A k \in DOMAIN stream.starts : stream.starts[k] = 1 + hop_size * (k - 1)
    /\ Len(stream.starts) <= FullWindows(stream.fed)
    /\ \A k \in DOMAIN stream.starts : detect(StreamWindow(k)) <=> (\E j \in DOMAIN stream.events : stream.events[j] = stream.starts[k])

\* C22 as stated: no window is skipped, no qualifying window's event is lost, and
\* a window left in the buffer is deferred by one call boundary: every window that
\* was complete before a call has been analyzed when the call returns.
C22_DeferredByOneCall ==
    audio_call # <<>>
        => /\ NoWindowSkipped
           /\ Len(stream.starts) >= FullWindows(stream.fed - Len(audio_call[1].samples))

\* C22 amended: no window is skipped and no qualifying window's event is lost; the
\* samples not yet consumed stay in the buffer; a call that finds a complete window
\* analyzes at least one, and goes on until a window qualifies or none is complete,
\* so each call delivers at most one of the pending events.
C22_DeferredNotDropped ==
    audio_call # <<>>
        => /\ NoWindowSkipped
           /\ Len(audio_call[1].after) = stream.fed - hop_size * Len(stream.starts)
           /\ \A i \in DOMAIN audio_call[1].after : audio_call[1].after[i].kind = stream.kinds[hop_size * Len(stream.starts) + i]
           /\ Len(audio_call[1].before) >= window_size => audio_call[1].windows >= 1
           /\ audio_call[1].event \/ Len(stream.starts) = FullWindows(stream.fed)

\* C22 witness: the first call returned the event of the first window with further
\* qualifying windows in the buffer; the second call, given no new sample, returned
\* the event of the second window.
C22_Witness ==
    /\ audio_call # <<>>
    /\ stream.calls = 2
    /\ audio_call[1].samples = <<>>
    /\ Len(audio_call[1].before) >= window_size
    /\ audio_call[1].event
    /\ stream.starts = <<1, 1 + hop_size>>
    /\ stream.events = stream.starts
    /\ Len(audio_call[1].after) >= window_size


\* C23: _detect returns an event exactly when the energy is not below
\* energy_threshold, the total spectral energy is above 1e-8 and the in-band
\* fraction of it is strictly greater than band_ratio_threshold.
C23_CryDecisionRule ==
    detect_call # <<>>
        => (detect_call[1].ret
              <=> /\ ~(detect_call[1].energy < EnergyThreshold)
                  /\ detect_call[1].total_energy > TotalEnergyFloor
                  /\ 100 * detect_call[1].band_energy > BandRatioThreshold * detect_call[1].total_energy)

\* C23 witness: energy exactly at its threshold and 46% of the spectral energy in
\* the band: a cry.
C23_Witness ==
    /\ detect_call # <<>>
    /\ detect_call[1].energy = EnergyThreshold
    /\ detect_call[1].total_energy = 100
    /\ detect_call[1].band_energy = 46
    /\ detect_call[1].ret


\* C24: any two events returned by AudioAnalyzer.process_frame are at least
\* cry_cooldown apart, and a detection that arrives sooner returns no event and
\* leaves the time of the last cry as it was.
C24_CryCooldown ==
    /\ \A i, j \in DOMAIN cry.returned :
          i < j => cry.returned[j] - cry.returned[i] >= CryCooldown
    /\ (cry.last # <<>> /\ cry.last[1].detected /\ cry.last[1].ts - cry.last[1].last_before < CryCooldown)
          => (~cry.last[1].event /\ cry.last[1].last_after = cry.last[1].last_before)

\* C24 witness: an event, then a detection suppressed within the cooldown, then a
\* second event one cooldown after the first and less than one cooldown after
\* the suppressed detection.
C24_Witness ==
    /\ Len(cry.returned) = 2
    /\ \E k \in DOMAIN cry.suppressed :
          /\ cry.returned[1] < cry.suppressed[k]
          /\ cry.suppressed[k] < cry.returned[2]
          /\ cry.returned[2] - cry.suppressed[k] < CryCooldown



\* C25: at any time at most one video task and one audio task is alive, and at
\* most one call of process_frame is in progress.
C25_OneTaskPerKind ==
    /\ Cardinality(Alive("video")) <= 1
    /\ Cardinality(Alive("audio")) <= 1
    /\ Cardinality(Calls) <= 1

InFlight == {cb \in Callbacks : rejoin[cb] # "idle"}

\* C26: at most one _attempt_rejoin is in flight, and a rejoin request that
\* arrives while the lock is held changes nothing: no reset, no join, no second
\* rejoin under way.
C26_RejoinMutualExclusion ==
    [][/\ Cardinality(InFlight') <= 1
       /\ (AttemptRejoin /\ rejoin_lock) => UNCHANGED <<rejoin, rejoin_lock, connVars, tasks, wave_file, detector, current_posture>>]_vars

\* C26 witness: the ICE callback's rejoin holds the lock and has not reset yet,
\* the peer connection is still there, and the connection-state callback is free
\* to ask for a rejoin of its own.
C26_Witness ==
    /\ rejoin_lock
    /\ rejoin["ice"] = "reset"
    /\ rejoin["connection"] = "idle"
    /\ pc = "open"
    /\ ws = "open"
    /\ ENABLED AttemptRejoin

\* C27: when the loop of an audio task has ended, whatever ended it, and no audio
\* task is left, the audio file is closed.
C27_ReleasedOnEveryExit ==
    ((\E i \in DOMAIN tasks : tasks[i].kind = "audio" /\ tasks[i].at \in Ended) /\ Alive("audio") = {})
        => wave_file = None

\* C28: a turn of a consumption loop in which the analysis of the frame raises
\* leaves the task alive and waiting for its next frame.
C28_BadInputNeverEndsLoop ==
    [][((TaskRecv \/ EstimationDone) /\ raised' # 0) => tasks'[raised'].at = "recv"]_vars

\* C28 witness: the estimation has raised for a frame of the video task, the audio
\* analysis has raised before or after, and both tasks wait for their next frame.
C28_Witness ==
    /\ raised # 0
    /\ tasks[raised].kind = "video"
    /\ tasks[raised].at = "recv"
    /\ \E i \in Alive("audio") : tasks[i].at = "recv"

\* C29: while a call of the estimation is pending, the event loop is free: an
\* audio task that waits for a frame can take its turn, and the signaling loop
\* can handle peer-left (a reset), and close can run.
C29_EstimationBlocksNothing ==
    Calls # {} =>
        /\ (\E i \in DOMAIN tasks : tasks[i].at = "recv") => ENABLED TaskRecv
        /\ ws = "open" => ENABLED PeerLeft
        /\ ~stop_requested => ENABLED CloseBegin

\* C29 witness: an estimation is pending for the video task while the audio task
\* waits for a frame and the signaling loop is connected.
C29_Witness ==
    /\ \E i \in Calls : tasks[i].at = "estimate"
    /\ \E i \in Alive("audio") : tasks[i].at = "recv"
    /\ ws = "open"
    /\ ~stop_requested


\* C30: the smoothed angle of the first valid frame after construction or after
\* an invalidation is the raw angle of the frame; on every later valid frame it is
\* smoothing * previous + (1 - smoothing) * raw, previous being the smoothed angle
\* kept from the valid frame before.
C30_SmoothedAngle ==
    [][(framesSeen' = framesSeen + 1 /\ observation' # <<>>)
          => observation'[1].torso_angle =
                IF sinceInvalidation' = 1
                THEN lastFrame'[1].angle_deg
                ELSE (Smoothing * previous_angle[1] + (10 - Smoothing) * lastFrame'[1].angle_deg) \div 10]_vars

\* C30 witness: frames at 10, 80 and 80 degrees with no invalidation in between:
\* 10, then 38, then 54.8 degrees.
C30_Witness ==
    /\ observation # <<>>
    /\ sinceInvalidation = 2
    /\ lastFrame[1].angle_deg = Deg(80)
    /\ observation[1].torso_angle = 5480
    /\ previous_angle = <<5480>>


\* C31: a movement event is emitted only movement_cooldown or more after the
\* movement timestamp, which is the time of the last movement event emitted: it
\* is set to the clock when a movement event is emitted and left alone by every
\* call that emits none, whatever wake events come in between.
C31_MovementEventsApart ==
    [][HandlerStep =>
          IF HasEvent(events', "movement")
          THEN /\ now' - last_movement_event_ts >= MovementCooldown
               /\ last_movement_event_ts' = now'
          ELSE last_movement_event_ts' = last_movement_event_ts]_vars

\* C31 witness: a wake event was registered after the last movement event, and a
\* moving observation one second after that movement event emitted nothing.
C31_Witness ==
    /\ observation # <<>>
    /\ observation[1].movement_detected
    /\ events = <<>>
    /\ last_event_label = "wake"
    /\ last_movement_event_ts > 0
    /\ now - last_movement_event_ts = 1


\* C32: while no stop is requested run does not return: when it leaves a
\* connection (the socket closed, an exception, the signaling loop ended) or
\* fails to connect, it waits, and from the wait it connects and joins again.
C32_RunKeepsRunning ==
    [][/\ run_at' = "returned" => stop_requested'
       /\ (run_at \in {"connecting", "signaling"} /\ run_at' \notin {run_at, "signaling"} /\ ~stop_requested)
             => run_at' = "waiting"
       /\ (run_at = "waiting" /\ run_at' # run_at /\ ~stop_requested)
             => run_at' = "connecting"]_vars

\* C32 witness: run has left a connection whose peer connection is still there,
\* no stop is requested, and run waits before it connects again.
C32_Witness ==
    /\ run_at = "waiting"
    /\ ws = "none"
    /\ pc = "open"
    /\ ~stop_requested

\* C33: once close is called, run returns in the end.
C33_RunReturnsAfterClose == stop_requested ~> (run_at = "returned")

\* C34: after close has returned there is no peer connection and no task of
\* either kind is alive.
C34_NothingOpenAfterClose ==
    landmarker = "closed" => (pc = None /\ Alive("video") \cup Alive("audio") = {})

\* C35: whenever _setup_peer_connection runs (in run after a connect, in a rejoin
\* whose join was sent, for an offer), the client holds no peer connection: the
\* one before has been closed.
C35_PreviousClosedBeforeReplaced ==
    [][(RunConnected \/ Offer \/ (RejoinJoin /\ ws = "open")) => pc = None]_vars

\* C36: every call of _register_event made by the handler returns True: a
\* moving observation that passed the movement cooldown emits its movement event,
\* and a candidate that passed the wake minimum duration emits its wake event.
C36_GateNeverRejects ==
    [][HandlerStep =>
          LET obs == observation'[1]
          IN /\ (obs.movement_detected /\ now' - last_movement_event_ts >= MovementCooldown)
                   => HasEvent(events', "movement")
             /\ (obs.posture \in Upright /\ ~is_awake /\ wake_candidate_posture = obs.posture
                   /\ now' - wake_candidate_since >= WakeMinDuration)
                   => HasEvent(events', "wake")]_vars

\* C36 witness: two movement events exactly the cooldown apart, with no other
\* event registered in between: the gate saw the same label 2.0 s later.
C36_Witness ==
    /\ pair.n = 2
    /\ pair.gap = EventCooldown
    /\ pair.moves = 2
    /\ last_event_label = "movement"
    /\ last_event_ts = now
    /\ ~HasEvent(events, "wake")


\* C38: a video frame that yields no observation (nothing detected, degenerate
\* torso, or the estimator raising) leaves every field of the arbitrator as it
\* was, the wake candidate and its start time among them.
C38_GapLeavesArbitrator ==
    [][(framesSeen' = framesSeen + 1 /\ observation' = <<>>) => UNCHANGED arbVars]_vars

\* C38 witness: an upright body started a wake candidate and the next frame gave
\* no observation; the candidate and its start time are still there.
C38_Witness ==
    /\ framesSeen = 2
    /\ observation = <<>>
    /\ lastFrame[1].kind \in EstimatorFailures
    /\ wake_candidate_posture \in Upright
    /\ wake_candidate_since > 0
    /\ current_posture = wake_candidate_posture


\* C37: with the default thresholds _classify_posture returns 'lying' exactly
\* when the hard gate holds (angle >= 70 or forward ratio >= 0.53); below the
\* gate the result is 'standing' or 'sitting', and it is 'sitting' whenever
\* neither score reaches 2.
C37_LyingOnlyByGate ==
    classify_call # <<>> =>
        /\ (classify_call[1].ret = "lying") <=> CallGate
        /\ ~CallGate => classify_call[1].ret \in {"standing", "sitting"}
        /\ (~CallGate /\ CallStanding < 2 /\ CallSitting < 2) => classify_call[1].ret = "sitting"

\* C37 witness: a torso at 10 degrees with no leg feature seen: one standing vote,
\* no sitting vote, and the result is 'sitting'.
C37_Witness ==
    /\ classify_call # <<>>
    /\ classify_call[1].angle_deg = Deg(10)
    /\ classify_call[1].forward_component = 10
    /\ classify_call[1].avg_knee_angle = <<>>
    /\ CallStanding = 1
    /\ CallSitting = 0
    /\ classify_call[1].ret = "sitting"


\* C39: process_samples terminates for every chunk and every configuration: a
\* call that has entered its loop returns.
C39_ProcessSamplesTerminates == (loop.at = "loop") ~> (loop.at = "returned")

====
